---- MODULE Spec2Model ----
(***************************************************************************)
(* Model of the BC Object Range analyzer: the AL declaration parser        *)
(* (src/src/parsers/alObjectParser.ts) and the range / conflict analysis   *)
(* of the workspace scanner (src/src/services/workspaceScanner.ts).        *)
(*                                                                         *)
(* A source line is a sequence of tokens.  The regular expressions of the  *)
(* parser are modelled by what they do on token sequences: the comment     *)
(* markers, the braces, a declaration header, an extends clause, the       *)
(* fields keyword, a field line and a value line are one token each;       *)
(* white space is implicit between tokens.                                 *)
(***************************************************************************)
EXTENDS Integers, Sequences, FiniteSets, TLC

VARIABLES
  \* ---- ALObjectParser.parseContent: the locals of the line loop ----
  pc,                        \* "loop" while lines remain, "done" after return
  vocab,                     \* which line vocabulary the content is drawn from
  lineNumber,                \* 1-based number of the last line read (i + 1)
  line,                      \* the last line read, lines[i]
  inMultiLineComment,
  currentObject,             \* index into objects of the current object, 0 = null
  braceDepth,
  inFieldsBlock,
  fieldsBlockDepth,
  expectingFieldsBlockBrace,
  objects,                   \* the objects array that parseContent returns
  lexInBlock,                \* history: a block comment is open at the end of the last line
  scopeClosedAt,             \* history: per object, the line that reset currentObject (0 = none)
  \* ---- WorkspaceScanner: the analysis over scanned projects ----
  apc,                       \* "input" before the scan, "scanned" after it
  appJsons,                  \* project root directory -> app name ("" = no app.json)
  files,                     \* .al file path -> its content (a sequence of lines)
  projects,                  \* ALProject[] as scanWorkspace returns it
  op,                        \* the analysis operation applied last
  result,                    \* what that operation returned
  \* ---- ALFileWatcher and the configuration it reads ----
  autoRefresh,               \* bcObjectRange.autoRefresh
  autoRefreshDelay,          \* bcObjectRange.autoRefreshDelay, in ticks
  watcher,                   \* this.watcher is defined (the **/*.al watcher is live)
  appJsonWatcher,            \* some **/app.json watcher is live
  debounceTimer,             \* the timer handle: defined, still pending, due time
  now,                       \* the clock, in ticks
  history,                   \* history: file events and calls of onFilesChanged, in order
  \* ---- extension.ts: refreshAnalysis and the two tree providers ----
  refreshes,                 \* the calls of refreshAnalysis, in the order they started
  usedIdsProvider,           \* the scan whose projects usedIdsProvider shows (0 = none)
  unusedIdsProvider          \* the scan whose projects unusedIdsProvider shows (0 = none)

parserVars == <<pc, vocab, lineNumber, line, inMultiLineComment, currentObject,
                braceDepth, inFieldsBlock, fieldsBlockDepth,
                expectingFieldsBlockBrace, objects, lexInBlock, scopeClosedAt>>
analysisVars == <<apc, appJsons, files, projects, op, result>>
extensionVars == <<autoRefresh, autoRefreshDelay, watcher, appJsonWatcher,
                   debounceTimer, now, history, refreshes, usedIdsProvider,
                   unusedIdsProvider>>
vars == <<parserVars, analysisVars, extensionVars>>

(***************************************************************************)
(* Bounds                                                                  *)
(***************************************************************************)
MaxLines == 5       \* lines of one source unit
MaxId == 4          \* identifiers 1..MaxId in the range analysis
MaxRanges == 2      \* configured ranges over all projects
MaxObjs == 2        \* declarations over all projects in the range analysis
MaxEditLines == 4   \* lines of a source unit that is parsed before and after an edit
MaxTime == 4        \* ticks of the clock the file watcher runs for
MaxDelay == 2       \* bcObjectRange.autoRefreshDelay is 1..MaxDelay ticks
MaxEvents == 3      \* file events and manual refreshes in one run
MaxRefreshes == 2   \* calls of the command bcObjectRange.analyze in one run

(***************************************************************************)
(* Tokens                                                                  *)
(***************************************************************************)
Tok(t) == [t |-> t, kind |-> "", id |-> 0, name |-> "", dataType |-> ""]
BO == Tok("/*")
BC == Tok("*/")
LC == Tok("//")
LB == Tok("{")
RB == Tok("}")
FIELDS == Tok("fields")
WORD == Tok("word")
Hdr(k, n, nm) == [t |-> "object", kind |-> k, id |-> n, name |-> nm, dataType |-> ""]
Ext(nm) == [t |-> "extends", kind |-> "", id |-> 0, name |-> nm, dataType |-> ""]
Fld(n, nm, ty) == [t |-> "field", kind |-> "", id |-> n, name |-> nm, dataType |-> ty]
Val(n, nm) == [t |-> "value", kind |-> "", id |-> n, name |-> nm, dataType |-> ""]
\* a header whose quoted name holds a comment marker reads as several tokens:
\* the header up to the marker, the marker (and what follows), the rest of the
\* name with its closing quote
HdrQ(k, n, part) == [t |-> "object-q", kind |-> k, id |-> n, name |-> part, dataType |-> ""]
NameQ(part) == [t |-> "q-name", kind |-> "", id |-> 0, name |-> part, dataType |-> ""]

\* optional arrays: undefined, or an array
Undefined == [defined |-> FALSE, items |-> <<>>]
Arr(s) == [defined |-> TRUE, items |-> s]
\* optional strings: "" encodes undefined (no pattern matches an empty name)
NoString == ""

AL_OBJECT_TYPES_WITH_ID ==
  {"table", "tableextension", "page", "pageextension", "report",
   "reportextension", "codeunit", "query", "xmlport", "enum",
   "enumextension", "permissionset", "permissionsetextension"}

\* String.toLowerCase on the spellings of a kind that the model uses
toLowerCase(s) ==
  CASE s = "Table" -> "table"
    [] s = "ENUM" -> "enum"
    [] OTHER -> s

Count(s, t) == Cardinality({j \in 1..Len(s) : s[j].t = t})
IndexOf(s, t) == IF \E j \in 1..Len(s) : s[j].t = t
                 THEN CHOOSE j \in 1..Len(s) : s[j].t = t /\ \A k \in 1..(j-1) : s[k].t # t
                 ELSE 0
LastIndexOf(s, t) == IF \E j \in 1..Len(s) : s[j].t = t
                     THEN CHOOSE j \in 1..Len(s) : s[j].t = t /\ \A k \in (j+1)..Len(s) : s[k].t # t
                     ELSE 0

(***************************************************************************)
(* Comment handling                                                        *)
(***************************************************************************)
\* line.replace(/\/\*[\s\S]*?\*\//g, ""): leftmost, shortest, repeated
RECURSIVE RemoveBlockComments(_)
RemoveBlockComments(s) ==
  IF s = <<>> THEN <<>>
  ELSE IF Head(s).t = "/*" /\ IndexOf(Tail(s), "*/") # 0
       THEN RemoveBlockComments(SubSeq(s, IndexOf(Tail(s), "*/") + 2, Len(s)))
       ELSE <<Head(s)>> \o RemoveBlockComments(Tail(s))

\* the do-while of stripComments: replace until the length no longer changes
RECURSIVE RemoveUntilStable(_)
RemoveUntilStable(s) ==
  LET r == RemoveBlockComments(s)
  IN IF Len(r) # Len(s) THEN RemoveUntilStable(r) ELSE r

\* mutant: only the line-comment marker is removed, the text after it is kept
stripComments_KeepsLineComment(l) ==
  LET r == RemoveUntilStable(l)
      singleLineIndex == IndexOf(r, "//")
  IN IF singleLineIndex # 0
     THEN SubSeq(r, 1, singleLineIndex - 1) \o SubSeq(r, singleLineIndex + 1, Len(r))
     ELSE r

stripComments(l) ==
  LET r == RemoveUntilStable(l)
      singleLineIndex == IndexOf(r, "//")
  IN IF singleLineIndex # 0 THEN SubSeq(r, 1, singleLineIndex - 1) ELSE r

\* mutant: a line comment before the block-comment open is not looked for
hasUnclosedMultiLineComment_IgnoresLineComment(l) ==
  LastIndexOf(RemoveBlockComments(l), "/*") # 0

hasUnclosedMultiLineComment(l) ==
  LET withoutComplete == RemoveBlockComments(l)
      openIndex == LastIndexOf(withoutComplete, "/*")
      singleLineIndex == IndexOf(withoutComplete, "//")
  IN IF openIndex = 0 THEN FALSE
     ELSE IF singleLineIndex # 0 /\ singleLineIndex < openIndex THEN FALSE
     ELSE TRUE

\* the continuation test at the top of the loop body: the text of the line
\* that is scanned, or skip = TRUE for `continue`
CommentContinuation(inComment, l) ==
  IF inComment
  THEN LET endIndex == IndexOf(l, "*/")
       IN IF endIndex # 0
          THEN [skip |-> FALSE, text |-> SubSeq(l, endIndex + 1, Len(l))]
          ELSE [skip |-> TRUE, text |-> <<>>]
  ELSE [skip |-> FALSE, text |-> l]

(***************************************************************************)
(* The patterns of the parser, on a comment-stripped line                  *)
(***************************************************************************)
\* OBJECT_PATTERN: anchored at the start of the line, kind in any letter case
\* the quoted name needs its closing quote: "([^"]+)"
OBJECT_PATTERN(cleanedLine) ==
  /\ Len(cleanedLine) > 0
  /\ \/ cleanedLine[1].t = "object"
     \/ /\ cleanedLine[1].t = "object-q"
        /\ Len(cleanedLine) > 1
        /\ cleanedLine[2].t = "q-name"
  /\ toLowerCase(cleanedLine[1].kind) \in AL_OBJECT_TYPES_WITH_ID

\* objectMatch[3] || objectMatch[4]
ObjectName(cleanedLine) ==
  IF cleanedLine[1].t = "object" THEN cleanedLine[1].name
  ELSE cleanedLine[1].name \o cleanedLine[2].name

\* EXTENDS_PATTERN: searched anywhere in the line; the name of the first match
EXTENDS_PATTERN(cleanedLine) ==
  IF IndexOf(cleanedLine, "extends") # 0
  THEN cleanedLine[IndexOf(cleanedLine, "extends")].name
  ELSE NoString

\* FIELD_PATTERN and ENUM_VALUE_PATTERN: anchored at the start of the line
FIELD_PATTERN(cleanedLine) == Len(cleanedLine) > 0 /\ cleanedLine[1].t = "field"
ENUM_VALUE_PATTERN(cleanedLine) == Len(cleanedLine) > 0 /\ cleanedLine[1].t = "value"

\* /\bfields\s*\{/i and /\bfields\s*$/i
FieldsWithBrace(cleanedLine) ==
  \E j \in 1..(Len(cleanedLine) - 1) :
    cleanedLine[j].t = "fields" /\ cleanedLine[j + 1].t = "{"
FieldsAtEnd(cleanedLine) ==
  Len(cleanedLine) > 0 /\ cleanedLine[Len(cleanedLine)].t = "fields"

IsTableLike(ty) == ty = "table" \/ ty = "tableextension"
IsEnumLike(ty) == ty = "enum" \/ ty = "enumextension"

(***************************************************************************)
(* parseContent: the body of the line loop, as steps over the loop state   *)
(*   st = [inMultiLineComment, currentObject, braceDepth, inFieldsBlock,   *)
(*         fieldsBlockDepth, expectingFieldsBlockBrace, objects,           *)
(*         scopeClosedAt]                                                  *)
(***************************************************************************)
ParserInit ==
  [inMultiLineComment |-> FALSE, currentObject |-> 0, braceDepth |-> 0,
   inFieldsBlock |-> FALSE, fieldsBlockDepth |-> 0,
   expectingFieldsBlockBrace |-> FALSE, objects |-> <<>>,
   scopeClosedAt |-> <<>>]

\* the object literal built for a matched header
NewObject_ListsForEveryKind(cleanedLine, ln, filePath) ==
  LET objectType == toLowerCase(cleanedLine[1].kind)
  IN [type |-> objectType,
      id |-> cleanedLine[1].id,
      name |-> ObjectName(cleanedLine),
      lineNumber |-> ln,
      filePath |-> filePath,
      extendsObject |-> EXTENDS_PATTERN(cleanedLine),
      fields |-> Arr(<<>>),
      enumValues |-> IF IsEnumLike(objectType) THEN Arr(<<>>) ELSE Undefined]

NewObject(cleanedLine, ln, filePath) ==
  LET objectType == toLowerCase(cleanedLine[1].kind)
  IN [type |-> objectType,
      id |-> cleanedLine[1].id,
      name |-> ObjectName(cleanedLine),
      lineNumber |-> ln,
      filePath |-> filePath,
      extendsObject |-> EXTENDS_PATTERN(cleanedLine),
      fields |-> IF IsTableLike(objectType) THEN Arr(<<>>) ELSE Undefined,
      enumValues |-> IF IsEnumLike(objectType) THEN Arr(<<>>) ELSE Undefined]

\* try to match an object declaration
MatchObject(st, cleanedLine, ln, filePath) ==
  IF OBJECT_PATTERN(cleanedLine)
  THEN [st EXCEPT !.objects = Append(@, NewObject(cleanedLine, ln, filePath)),
                  !.scopeClosedAt = Append(@, 0),
                  !.currentObject = Len(st.objects) + 1,
                  !.braceDepth = 0,
                  !.inFieldsBlock = FALSE,
                  !.expectingFieldsBlockBrace = FALSE]
  ELSE st

\* expecting the brace of a fields block and the line has an open brace
EnterExpectedFieldsBlock(st, openBraces) ==
  IF st.expectingFieldsBlockBrace /\ openBraces > 0
  THEN [st EXCEPT !.inFieldsBlock = TRUE,
                  !.fieldsBlockDepth = st.braceDepth + 1,
                  !.expectingFieldsBlockBrace = FALSE]
  ELSE st

UpdateBraceDepth(st, netBraceChange) ==
  [st EXCEPT !.braceDepth = @ + netBraceChange]

\* `fields {` on one line, or `fields` alone at the end of the line
DetectFieldsKeyword(st, cleanedLine) ==
  IF /\ st.currentObject # 0
     /\ IsTableLike(st.objects[st.currentObject].type)
     /\ ~st.inFieldsBlock
  THEN IF FieldsWithBrace(cleanedLine)
       THEN [st EXCEPT !.inFieldsBlock = TRUE, !.fieldsBlockDepth = st.braceDepth]
       ELSE IF FieldsAtEnd(cleanedLine)
            THEN [st EXCEPT !.expectingFieldsBlockBrace = TRUE]
            ELSE st
  ELSE st

\* mutant: field lines are taken inside and outside of the fields block
ParseField_OutsideBlock(st, cleanedLine, ln, filePath) ==
  IF /\ st.currentObject # 0
     /\ IsTableLike(st.objects[st.currentObject].type)
     /\ FIELD_PATTERN(cleanedLine)
  THEN LET field == [id |-> cleanedLine[1].id, name |-> cleanedLine[1].name,
                     dataType |-> cleanedLine[1].dataType,
                     lineNumber |-> ln, filePath |-> filePath]
       IN [st EXCEPT !.objects[st.currentObject].fields.items = Append(@, field)]
  ELSE st

\* a field line inside the fields block of a table / tableextension
ParseField(st, cleanedLine, ln, filePath) ==
  IF /\ st.inFieldsBlock
     /\ st.currentObject # 0
     /\ IsTableLike(st.objects[st.currentObject].type)
     /\ FIELD_PATTERN(cleanedLine)
  THEN LET field == [id |-> cleanedLine[1].id, name |-> cleanedLine[1].name,
                     dataType |-> cleanedLine[1].dataType,
                     lineNumber |-> ln, filePath |-> filePath]
       IN [st EXCEPT !.objects[st.currentObject].fields.items = Append(@, field)]
  ELSE st

\* mutant: value lines are taken whatever the brace depth
ParseEnumValue_AnyDepth(st, cleanedLine, ln, filePath) ==
  IF /\ st.currentObject # 0
     /\ IsEnumLike(st.objects[st.currentObject].type)
     /\ ENUM_VALUE_PATTERN(cleanedLine)
  THEN LET enumValue == [id |-> cleanedLine[1].id, name |-> cleanedLine[1].name,
                         lineNumber |-> ln, filePath |-> filePath]
       IN [st EXCEPT !.objects[st.currentObject].enumValues.items = Append(@, enumValue)]
  ELSE st

\* mutant: value lines are taken for a declaration of any kind
ParseEnumValue_AnyKind(st, cleanedLine, ln, filePath) ==
  IF /\ st.currentObject # 0
     /\ st.braceDepth > 0
     /\ ENUM_VALUE_PATTERN(cleanedLine)
  THEN LET enumValue == [id |-> cleanedLine[1].id, name |-> cleanedLine[1].name,
                         lineNumber |-> ln, filePath |-> filePath]
       IN [st EXCEPT !.objects[st.currentObject].enumValues.items = Append(@, enumValue)]
  ELSE st

\* a value line inside an enum / enumextension
ParseEnumValue(st, cleanedLine, ln, filePath) ==
  IF /\ st.currentObject # 0
     /\ IsEnumLike(st.objects[st.currentObject].type)
     /\ st.braceDepth > 0
     /\ ENUM_VALUE_PATTERN(cleanedLine)
  THEN LET enumValue == [id |-> cleanedLine[1].id, name |-> cleanedLine[1].name,
                         lineNumber |-> ln, filePath |-> filePath]
       IN [st EXCEPT !.objects[st.currentObject].enumValues.items = Append(@, enumValue)]
  ELSE st

ExitFieldsBlock(st) ==
  IF st.inFieldsBlock /\ st.braceDepth < st.fieldsBlockDepth
  THEN [st EXCEPT !.inFieldsBlock = FALSE]
  ELSE st

\* mutant: the scope is left but the current object is kept
ExitScope_KeepsObject(st, closeBraces, ln) ==
  IF st.currentObject # 0 /\ st.braceDepth <= 0 /\ closeBraces > 0
  THEN [st EXCEPT !.scopeClosedAt[st.currentObject] = ln,
                  !.braceDepth = 0,
                  !.inFieldsBlock = FALSE,
                  !.expectingFieldsBlockBrace = FALSE]
  ELSE st

\* reset the current object when its scope is left
ExitScope(st, closeBraces, ln) ==
  IF st.currentObject # 0 /\ st.braceDepth <= 0 /\ closeBraces > 0
  THEN [st EXCEPT !.scopeClosedAt[st.currentObject] = ln,
                  !.currentObject = 0,
                  !.braceDepth = 0,
                  !.inFieldsBlock = FALSE,
                  !.expectingFieldsBlockBrace = FALSE]
  ELSE st

\* one iteration of the loop over the lines
ParseLine(st, rawLine, ln, filePath) ==
  LET cont == CommentContinuation(st.inMultiLineComment, rawLine)
  IN IF cont.skip THEN st
     ELSE
       LET cleanedLine == stripComments(cont.text)
           s0 == [st EXCEPT !.inMultiLineComment = hasUnclosedMultiLineComment(cont.text)]
           s1 == MatchObject(s0, cleanedLine, ln, filePath)
           openBraces == Count(cleanedLine, "{")
           closeBraces == Count(cleanedLine, "}")
           s2 == EnterExpectedFieldsBlock(s1, openBraces)
           s3 == UpdateBraceDepth(s2, openBraces - closeBraces)
           s4 == DetectFieldsKeyword(s3, cleanedLine)
           s5 == ParseField(s4, cleanedLine, ln, filePath)
           s6 == ParseEnumValue(s5, cleanedLine, ln, filePath)
           s7 == ExitFieldsBlock(s6)
       IN ExitScope(s7, closeBraces, ln)

\* parseContent as a function of the whole content
RECURSIVE ParseFrom(_, _, _, _)
ParseFrom(st, lines, i, filePath) ==
  IF i > Len(lines) THEN st
  ELSE ParseFrom(ParseLine(st, lines[i], i, filePath), lines, i + 1, filePath)

parseContent(content, filePath) == ParseFrom(ParserInit, content, 1, filePath).objects

(***************************************************************************)
(* The parser as a state machine: one step per line read                   *)
(***************************************************************************)
UnitPath == <<"A", "t.al">>

\* how a lexer reads the comment markers of a line: the block-comment state
\* at the end of the line, given the state at its start
RECURSIVE LexEnd(_, _)
LexEnd(inBlock, s) ==
  IF s = <<>> THEN inBlock
  ELSE IF inBlock THEN LexEnd(Head(s).t # "*/", Tail(s))
  ELSE IF Head(s).t = "//" THEN FALSE
  ELSE LexEnd(Head(s).t = "/*", Tail(s))

\* the lines a unit is made of, by vocabulary
Vocabulary(v) ==
    \* line vocabularies: comment handling, and scopes with fields and values
  CASE v = "comments" ->
         { <<BO>>, <<BC>>, <<LC, BO>>, <<BO, LC, BO>>, <<BO, WORD, BC>>,
           <<Hdr("table", 1, "T")>>, <<BC, Hdr("table", 1, "T")>>,
           <<BO, WORD, BC, Hdr("page", 2, "P")>>,
           <<LB>>, <<RB>>, <<BC, LB>> }
    [] v = "scopes" ->
         { <<Hdr("table", 1, "T")>>, <<Hdr("enum", 2, "E"), LB>>,
           <<LB>>, <<RB>>, <<RB, RB>>,
           <<FIELDS>>, <<FIELDS, LB>>,
           <<Fld(1, "F", "Integer")>>, <<Fld(2, "G", "Code"), LB, RB>>,
           <<Fld(3, "H", "Text"), RB, RB>>,
           <<Val(0, "A")>>, <<Val(1, "B"), RB>> }
    \* braces inside and outside of comments
    [] v = "braces" ->
         { <<Hdr("table", 1, "T")>>, <<LB>>, <<RB>>,
           <<LC, LB>>, <<LC, RB>>, <<BO, LB, BC>>, <<BO, RB, BC>>,
           <<BO, LB>>, <<BO, RB>>, <<LB, BC>>, <<BC>> }
    \* line comments that hide a block-comment open
    [] v = "linecomments" ->
         { <<LC, BO>>, <<Hdr("table", 1, "T"), LC, BO>>, <<LB, LC, BO, RB>>,
           <<LC, BO, Hdr("page", 2, "P")>>, <<BO, WORD, BC, LC, BO>>,
           <<BC, RB, LC, BO>>, <<BO, LC, BO>>,
           <<BO>>, <<BC>>, <<Hdr("page", 2, "P")>>, <<RB>> }
    \* header lines: letter case of the kind, quoted and bare names, quoted names
    \* that hold `//` or `/* word */`, a word that is no kind
    [] v = "headers" ->
         { <<Hdr("Table", 1, "My Table - (Test) [v2]")>>, <<Hdr("ENUM", 2, "E")>>,
           <<Hdr("page", 3, "P"), LB>>, <<Hdr("tablet", 4, "X")>>,
           <<HdrQ("codeunit", 5, "Import"), LC, NameQ("Export")>>,
           <<HdrQ("query", 6, "a"), BO, WORD, BC, NameQ("b")>>,
           <<LC, Hdr("page", 3, "P")>>, <<BO>>, <<BC>>, <<RB>> }
    \* headers of extension and non-extension kinds, with and without the text
    \* `extends <name>` after the name, and the children that fill their lists
    [] v = "kinds" ->
         { <<Hdr("table", 1, "T")>>, <<Hdr("tableextension", 2, "TE"), Ext("Cust")>>,
           <<Hdr("enumextension", 4, "EE"), Ext("Status")>>,
           <<Hdr("page", 1, "P")>>, <<Hdr("codeunit", 3, "C"), Ext("Cust")>>,
           <<LB, FIELDS, LB>>, <<Fld(1, "F", "Integer")>>, <<LB, Val(0, "A")>>,
           <<RB, RB>> }
    \* malformed text: an unterminated comment, unbalanced braces, field and
    \* value lines with no open declaration, `fields` never followed by a
    \* brace, lines that match nothing
    [] v = "malformed" ->
         { <<BO>>, <<RB>>, <<LB>>, <<FIELDS>>, <<WORD>>,
           <<Fld(1, "F", "Integer")>>, <<Val(0, "A")>>,
           <<Hdr("table", 1, "T")>>, <<Hdr("enum", 2, "E"), LB>> }
    [] OTHER -> {}

ParserState ==
  [inMultiLineComment |-> inMultiLineComment, currentObject |-> currentObject,
   braceDepth |-> braceDepth, inFieldsBlock |-> inFieldsBlock,
   fieldsBlockDepth |-> fieldsBlockDepth,
   expectingFieldsBlockBrace |-> expectingFieldsBlockBrace,
   objects |-> objects, scopeClosedAt |-> scopeClosedAt]

ParserStart(v) ==
  /\ pc = "loop"
  /\ vocab = v
  /\ lineNumber = 0
  /\ line = <<>>
  /\ inMultiLineComment = ParserInit.inMultiLineComment
  /\ currentObject = ParserInit.currentObject
  /\ braceDepth = ParserInit.braceDepth
  /\ inFieldsBlock = ParserInit.inFieldsBlock
  /\ fieldsBlockDepth = ParserInit.fieldsBlockDepth
  /\ expectingFieldsBlockBrace = ParserInit.expectingFieldsBlockBrace
  /\ objects = ParserInit.objects
  /\ scopeClosedAt = ParserInit.scopeClosedAt
  /\ lexInBlock = FALSE

ParserIdle ==
  /\ pc = "idle"
  /\ vocab = "none"
  /\ lineNumber = 0
  /\ line = <<>>
  /\ inMultiLineComment = FALSE
  /\ currentObject = 0
  /\ braceDepth = 0
  /\ inFieldsBlock = FALSE
  /\ fieldsBlockDepth = 0
  /\ expectingFieldsBlockBrace = FALSE
  /\ objects = <<>>
  /\ scopeClosedAt = <<>>
  /\ lexInBlock = FALSE

NoOp == [name |-> "none", project |-> 0, objectType |-> ""]

\* the extension (file watcher, refreshAnalysis, tree providers) is not part of the run
ExtensionIdle ==
  /\ autoRefresh = FALSE
  /\ autoRefreshDelay = 0
  /\ watcher = FALSE
  /\ appJsonWatcher = FALSE
  /\ debounceTimer = [defined |-> FALSE, pending |-> FALSE, due |-> 0]
  /\ now = 0
  /\ history = <<>>
  /\ refreshes = <<>>
  /\ usedIdsProvider = 0
  /\ unusedIdsProvider = 0

AnalysisIdle ==
  /\ apc = "idle"
  /\ appJsons = <<>>
  /\ files = <<>>
  /\ projects = <<>>
  /\ op = NoOp
  /\ result = <<>>

\* for (let i = 0; i < lines.length; i++) { ... }: one iteration
ReadLine ==
  /\ pc = "loop"
  /\ lineNumber < MaxLines
  /\ \E l \in Vocabulary(vocab) :
       LET st == ParseLine(ParserState, l, lineNumber + 1, UnitPath)
       IN /\ line' = l
          /\ lineNumber' = lineNumber + 1
          /\ inMultiLineComment' = st.inMultiLineComment
          /\ currentObject' = st.currentObject
          /\ braceDepth' = st.braceDepth
          /\ inFieldsBlock' = st.inFieldsBlock
          /\ fieldsBlockDepth' = st.fieldsBlockDepth
          /\ expectingFieldsBlockBrace' = st.expectingFieldsBlockBrace
          /\ objects' = st.objects
          /\ scopeClosedAt' = st.scopeClosedAt
          /\ lexInBlock' = LexEnd(lexInBlock, l)
  /\ UNCHANGED <<pc, vocab, analysisVars, extensionVars>>

\* return objects, once the lines are exhausted
ReturnObjects ==
  /\ pc = "loop"
  /\ pc' = "done"
  /\ UNCHANGED <<vocab, lineNumber, line, inMultiLineComment, currentObject,
                 braceDepth, inFieldsBlock, fieldsBlockDepth,
                 expectingFieldsBlockBrace, objects, lexInBlock, scopeClosedAt,
                 analysisVars, extensionVars>>

NextParser == ReadLine \/ ReturnObjects

\* the parser before the first line of a unit over vocabulary v
InitParser(v) == ParserStart(v) /\ AnalysisIdle /\ ExtensionIdle

SpecComments == InitParser("comments") /\ [][NextParser]_vars
SpecScopes == InitParser("scopes") /\ [][NextParser]_vars

SpecLineComments == InitParser("linecomments") /\ [][NextParser]_vars

SpecHeaders == InitParser("headers") /\ [][NextParser]_vars

SpecKinds == InitParser("kinds") /\ [][NextParser]_vars

SpecBraces == InitParser("braces") /\ [][NextParser]_vars

SpecMalformed == InitParser("malformed") /\ [][NextParser]_vars

(***************************************************************************)
(* WorkspaceScanner: gaps and shared ranges                                *)
(***************************************************************************)
Null == -1          \* gapStart = null

Max(a, b) == IF a >= b THEN a ELSE b

\* mutant: the count of a gap closed by a used id is one too large
ClosedGap_CountOffByOne(gapStart, id) ==
  [start |-> gapStart, end |-> id - 1, count |-> id - gapStart + 1]

\* gaps.push({start: gapStart, end: id - 1, count: id - gapStart})
ClosedGap(gapStart, id) ==
  [start |-> gapStart, end |-> id - 1, count |-> id - gapStart]

\* mutant: the gap that reaches the end of the range stops one id early
TrailingGap_StopsEarly(gapStart, to) ==
  [start |-> gapStart, end |-> to - 1, count |-> to - gapStart]

\* gaps.push({start: gapStart, end: range.to, count: range.to - gapStart + 1})
TrailingGap(gapStart, to) ==
  [start |-> gapStart, end |-> to, count |-> to - gapStart + 1]

\* for (let id = range.from; id <= range.to; id++) { ... } and the trailing gap
RECURSIVE ScanRange(_, _, _, _, _)
ScanRange(id, to, usedIds, gapStart, gaps) ==
  IF id > to
  THEN IF gapStart # Null THEN Append(gaps, TrailingGap(gapStart, to)) ELSE gaps
  ELSE IF id \notin usedIds
       THEN ScanRange(id + 1, to, usedIds,
                      IF gapStart = Null THEN id ELSE gapStart, gaps)
       ELSE IF gapStart # Null
            THEN ScanRange(id + 1, to, usedIds, Null,
                           Append(gaps, ClosedGap(gapStart, id)))
            ELSE ScanRange(id + 1, to, usedIds, Null, gaps)

\* for (const range of project.idRanges) { ... }
RECURSIVE ScanRanges(_, _, _, _)
ScanRanges(ranges, i, usedIds, gaps) ==
  IF i > Len(ranges) THEN gaps
  ELSE ScanRanges(ranges, i + 1, usedIds,
                  ScanRange(ranges[i].from, ranges[i].to, usedIds, Null, gaps))

UsedIds(project) == {project.objects[j].id : j \in 1..Len(project.objects)}

calculateGaps(project) ==
  IF Len(project.idRanges) = 0 THEN <<>>
  ELSE ScanRanges(project.idRanges, 1, UsedIds(project), <<>>)

\* mutant: the start of the last gap
getNextAvailableId_LastGap(project) ==
  LET gaps == calculateGaps(project)
  IN IF Len(gaps) = 0 THEN Null ELSE gaps[Len(gaps)].start

\* null when there is no gap, else gaps[0].start
getNextAvailableId(project) ==
  LET gaps == calculateGaps(project)
  IN IF Len(gaps) = 0 THEN Null ELSE gaps[1].start

\* allRanges.push(...project.idRanges) for every project
RECURSIVE AllRanges(_)
AllRanges(ps) ==
  IF ps = <<>> THEN <<>>
  ELSE Head(ps).idRanges \o AllRanges(Tail(ps))

RECURSIVE SortByFrom(_)
SortByFrom(rs) ==
  LET \* Array.prototype.sort((a, b) => a.from - b.from): stable
      RECURSIVE InsertByFrom(_, _)
      InsertByFrom(sorted, r) ==
        IF sorted = <<>> THEN <<r>>
        ELSE IF sorted[Len(sorted)].from <= r.from THEN Append(sorted, r)
        ELSE Append(InsertByFrom(SubSeq(sorted, 1, Len(sorted) - 1), r), sorted[Len(sorted)])
  IN IF rs = <<>> THEN <<>>
     ELSE InsertByFrom(SortByFrom(SubSeq(rs, 1, Len(rs) - 1)), rs[Len(rs)])

\* mutant: the merged range takes the end of the range merged into it
MergeRange_TakesCurrentEnd(merged, current) ==
  LET last == merged[Len(merged)]
  IN IF current.from <= last.to + 1
     THEN [merged EXCEPT ![Len(merged)].to = current.to]
     ELSE Append(merged, current)

\* mutant: only overlapping ranges merge, adjacent ranges do not
MergeRange_OverlapOnly(merged, current) ==
  LET last == merged[Len(merged)]
  IN IF current.from <= last.to
     THEN [merged EXCEPT ![Len(merged)].to = Max(last.to, current.to)]
     ELSE Append(merged, current)

\* the body of the merge loop
MergeRange(merged, current) ==
  LET last == merged[Len(merged)]
  IN IF current.from <= last.to + 1
     THEN [merged EXCEPT ![Len(merged)].to = Max(last.to, current.to)]
     ELSE Append(merged, current)

RECURSIVE MergeFrom(_, _, _)
MergeFrom(allRanges, i, merged) ==
  IF i > Len(allRanges) THEN merged
  ELSE MergeFrom(allRanges, i + 1, MergeRange(merged, allRanges[i]))

getSharedRanges(ps) ==
  LET allRanges == AllRanges(ps)
  IN IF Len(allRanges) = 0 THEN <<>>
     ELSE LET sorted == SortByFrom(allRanges)
          IN MergeFrom(sorted, 2, <<sorted[1]>>)

RECURSIVE ScanSharedRanges(_, _, _, _, _)
ScanSharedRanges(ranges, i, usedIds, gaps, objectType) ==
  LET \* the gap records of shared mode carry the object type
      SharedClosedGap(gapStart, id, ty) ==
        [start |-> gapStart, end |-> id - 1, count |-> id - gapStart,
         objectType |-> ty]
      SharedTrailingGap(gapStart, to, ty) ==
        [start |-> gapStart, end |-> to, count |-> to - gapStart + 1,
         objectType |-> ty]
      RECURSIVE ScanSharedRange(_, _, _, _, _, _)
      ScanSharedRange(id, to, used, gapStart, gs, ty) ==
        IF id > to
        THEN IF gapStart # Null
             THEN Append(gs, SharedTrailingGap(gapStart, to, ty))
             ELSE gs
        ELSE IF id \notin used
             THEN ScanSharedRange(id + 1, to, used,
                                  IF gapStart = Null THEN id ELSE gapStart, gs, ty)
             ELSE IF gapStart # Null
                  THEN ScanSharedRange(id + 1, to, used, Null,
                                       Append(gs, SharedClosedGap(gapStart, id, ty)), ty)
                  ELSE ScanSharedRange(id + 1, to, used, Null, gs, ty)
  IN IF i > Len(ranges) THEN gaps
     ELSE ScanSharedRanges(ranges, i + 1, usedIds,
            ScanSharedRange(ranges[i].from, ranges[i].to, usedIds, Null, gaps, objectType),
            objectType)

\* the ids of the objects of one type, over all projects
UsedIdsOfType(ps, objectType) ==
  UNION { {ps[p].objects[j].id :
             j \in {k \in 1..Len(ps[p].objects) : ps[p].objects[k].type = objectType}} :
          p \in 1..Len(ps) }

calculateSharedGaps(ps, objectType) ==
  LET sharedRanges == getSharedRanges(ps)
  IN IF Len(sharedRanges) = 0 THEN <<>>
     ELSE ScanSharedRanges(sharedRanges, 1, UsedIdsOfType(ps, objectType), <<>>,
                           objectType)

\* mutant: the ids used by declarations of any kind count as used
getNextAvailableIdForType_AnyKind(ps, objectType) ==
  LET sharedRanges == getSharedRanges(ps)
      gaps == IF Len(sharedRanges) = 0 THEN <<>>
              ELSE ScanSharedRanges(sharedRanges, 1,
                     UNION {UsedIds(ps[p]) : p \in 1..Len(ps)}, <<>>, objectType)
  IN IF Len(gaps) = 0 THEN Null ELSE gaps[1].start

\* null when calculateSharedGaps finds no gap, else gaps[0].start
getNextAvailableIdForType(ps, objectType) ==
  LET gaps == calculateSharedGaps(ps, objectType)
  IN IF Len(gaps) = 0 THEN Null ELSE gaps[1].start

(***************************************************************************)
(* The range analysis as a state machine: the projects of a finished scan, *)
(* and one action per analysis operation                                   *)
(***************************************************************************)
Ids == 1..MaxId
\* IdRangeSchema: positive integers with to >= from
Ranges == {[from |-> a, to |-> b] : <<a, b>> \in {<<a, b>> \in Ids \X Ids : a <= b}}
RangeLists(n) == UNION {[1..k -> Ranges] : k \in 0..n}

TypeRank(ty) ==
  LET \* String.localeCompare on the object types
      TypeOrder ==
        <<"codeunit", "enum", "enumextension", "page", "pageextension",
          "permissionset", "permissionsetextension", "query", "report",
          "reportextension", "table", "tableextension", "xmlport">>
  IN CHOOSE r \in 1..Len(TypeOrder) : TypeOrder[r] = ty

RECURSIVE SortObjects(_)
SortObjects(os) ==
  LET \* objects.sort by type, then by id: stable
      ObjectBefore(a, b) ==
        \/ TypeRank(a.type) < TypeRank(b.type)
        \/ (a.type = b.type /\ a.id < b.id)
      RECURSIVE InsertObject(_, _)
      InsertObject(sorted, o) ==
        IF sorted = <<>> THEN <<o>>
        ELSE IF ~ObjectBefore(o, sorted[Len(sorted)]) THEN Append(sorted, o)
        ELSE Append(InsertObject(SubSeq(sorted, 1, Len(sorted) - 1), o), sorted[Len(sorted)])
  IN IF os = <<>> THEN <<>>
     ELSE InsertObject(SortObjects(SubSeq(os, 1, Len(os) - 1)), os[Len(os)])

\* the objects of a project that declares the (kind, id) pairs of D
ObjectsOf(D, root) ==
  LET RECURSIVE SeqOfSet(_)
      SeqOfSet(S) ==
        IF S = {} THEN <<>>
        ELSE LET x == CHOOSE x \in S : TRUE IN <<x>> \o SeqOfSet(S \ {x})
      \* a declaration without children, as the parser returns it for `<kind> <id> Obj`
      PlainObject(kind, n, rt) ==
        [type |-> kind, id |-> n, name |-> "Obj", lineNumber |-> n,
         filePath |-> rt \o <<"o.al">>, extendsObject |-> NoString,
         fields |-> IF IsTableLike(kind) THEN Arr(<<>>) ELSE Undefined,
         enumValues |-> Undefined]
  IN SortObjects(SeqOfSet({PlainObject(d[1], d[2], root) : d \in D}))

Project(nm, ranges, D) ==
  [name |-> nm, rootPath |-> <<nm>>, idRanges |-> ranges,
   objects |-> ObjectsOf(D, <<nm>>)]

SmallSets(S, n) == {D \in SUBSET S : Cardinality(D) <= n}

InitRanges ==
  LET \* one project with several ranges and several used ids
      OneProjectInputs ==
        {<<Project("A", rs, D)>> :
           <<rs, D>> \in RangeLists(MaxRanges) \X SmallSets({"table"} \X Ids, MaxObjs)}
      \* two projects, one range and one declaration each at most
      TwoProjectInputs ==
        {<<Project("A", ra, Da), Project("C", rc, Dc)>> :
           <<ra, Da, rc, Dc>> \in
              RangeLists(1) \X SmallSets({"table", "page"} \X Ids, 1)
              \X RangeLists(1) \X SmallSets({"table", "page"} \X Ids, 1)}
      \* three projects with one range each at most and no declarations
      ThreeProjectInputs ==
        {<<Project("A", ra, {}), Project("B", rb, {}), Project("C", rc, {})>> :
           <<ra, rb, rc>> \in RangeLists(1) \X RangeLists(1) \X RangeLists(1)}
  IN /\ ParserIdle /\ ExtensionIdle
     /\ apc = "scanned"
     /\ appJsons = <<>>
     /\ files = <<>>
     /\ projects \in OneProjectInputs \cup TwoProjectInputs \cup ThreeProjectInputs
     /\ op = NoOp
     /\ result = <<>>

SharedTypes == {"table", "page"}

CalculateGaps ==
  /\ apc = "scanned"
  /\ \E p \in 1..Len(projects) :
       /\ op' = [name |-> "calculateGaps", project |-> p, objectType |-> ""]
       /\ result' = calculateGaps(projects[p])
  /\ UNCHANGED <<apc, appJsons, files, projects, parserVars, extensionVars>>

GetSharedRanges ==
  /\ apc = "scanned"
  /\ op' = [name |-> "getSharedRanges", project |-> 0, objectType |-> ""]
  /\ result' = getSharedRanges(projects)
  /\ UNCHANGED <<apc, appJsons, files, projects, parserVars, extensionVars>>

CalculateSharedGaps ==
  /\ apc = "scanned"
  /\ \E ty \in SharedTypes :
       /\ op' = [name |-> "calculateSharedGaps", project |-> 0, objectType |-> ty]
       /\ result' = calculateSharedGaps(projects, ty)
  /\ UNCHANGED <<apc, appJsons, files, projects, parserVars, extensionVars>>

GetNextAvailableId ==
  /\ apc = "scanned"
  /\ \E p \in 1..Len(projects) :
       /\ op' = [name |-> "getNextAvailableId", project |-> p, objectType |-> ""]
       /\ result' = getNextAvailableId(projects[p])
  /\ UNCHANGED <<apc, appJsons, files, projects, parserVars, extensionVars>>

GetNextAvailableIdForType ==
  /\ apc = "scanned"
  /\ \E ty \in SharedTypes :
       /\ op' = [name |-> "getNextAvailableIdForType", project |-> 0, objectType |-> ty]
       /\ result' = getNextAvailableIdForType(projects, ty)
  /\ UNCHANGED <<apc, appJsons, files, projects, parserVars, extensionVars>>

NextRanges ==
  \/ CalculateGaps \/ GetSharedRanges \/ CalculateSharedGaps \/ GetNextAvailableId
  \/ GetNextAvailableIdForType

SpecRanges == InitRanges /\ [][NextRanges]_vars

(***************************************************************************)
(* WorkspaceScanner: scanning the workspace                                *)
(*                                                                         *)
(* A path is the sequence of its segments below the workspace folder.      *)
(***************************************************************************)
dirname(path) == SubSeq(path, 1, Len(path) - 1)
IsUnder(path, root) == Len(path) > Len(root) /\ SubSeq(path, 1, Len(root)) = root

\* the directories that may hold an app.json, in the order findFiles lists them
AppJsonDirs == << <<"A">>, <<"A", "src">>, <<"C">> >>
\* the .al files of the workspace, in the order findFiles lists them
AlFiles == << <<"A", "t.al">>, <<"A", "u.al">>, <<"A", "src", "v.al">>, <<"C", "w.al">> >>

NameRank(nm) ==
  LET \* String.localeCompare on the app names
      AppNames == <<"App1", "App2">>
  IN CHOOSE r \in 1..Len(AppNames) : AppNames[r] = nm

\* findALFilesInProject: the files matched by <projectRoot>/**/*.al,
\* as indexes into AlFiles
RECURSIVE FilesUnder(_, _)
FilesUnder(root, i) ==
  IF i > Len(AlFiles) THEN <<>>
  ELSE (IF IsUnder(AlFiles[i], root) THEN <<i>> ELSE <<>>)
       \o FilesUnder(root, i + 1)

\* parseALFiles: the objects of all files, file after file
RECURSIVE ParseFiles(_, _)
ParseFiles(fileUris, contents) ==
  IF fileUris = <<>> THEN <<>>
  ELSE parseContent(contents[Head(fileUris)], AlFiles[Head(fileUris)])
       \o ParseFiles(Tail(fileUris), contents)

\* scanProject for a valid app.json with the given name
scanProject(projectRoot, appName, contents) ==
  [name |-> appName,
   rootPath |-> projectRoot,
   idRanges |-> <<>>,
   objects |-> SortObjects(ParseFiles(FilesUnder(projectRoot, 1), contents))]

RECURSIVE SortProjects(_)
SortProjects(ps) ==
  LET \* projects.sort((a, b) => a.name.localeCompare(b.name)): stable
      RECURSIVE InsertProject(_, _)
      InsertProject(sorted, pr) ==
        IF sorted = <<>> THEN <<pr>>
        ELSE IF NameRank(sorted[Len(sorted)].name) <= NameRank(pr.name) THEN Append(sorted, pr)
        ELSE Append(InsertProject(SubSeq(sorted, 1, Len(sorted) - 1), pr), sorted[Len(sorted)])
  IN IF ps = <<>> THEN <<>>
     ELSE InsertProject(SortProjects(SubSeq(ps, 1, Len(ps) - 1)), ps[Len(ps)])

\* the loop over the app.json files; "" stands for no (valid) app.json
RECURSIVE ScanAppJsons(_, _, _)
ScanAppJsons(i, names, contents) ==
  IF i > Len(AppJsonDirs) THEN <<>>
  ELSE (IF names[i] # NoString
        THEN <<scanProject(AppJsonDirs[i], names[i], contents)>>
        ELSE <<>>)
       \o ScanAppJsons(i + 1, names, contents)

scanWorkspace(names, contents) == SortProjects(ScanAppJsons(1, names, contents))

(***************************************************************************)
(* WorkspaceScanner: conflict detection                                    *)
(***************************************************************************)
NaN == -2           \* parseInt of a text that is no number

\* template literals and parseInt on the ids that occur
Digits == <<"0", "1", "2", "3", "4", "5">>
IntToStr(n) == Digits[n + 1]
parseInt(str) ==
  IF \E n \in 1..Len(Digits) : Digits[n] = str
  THEN (CHOOSE n \in 1..Len(Digits) : Digits[n] = str) - 1
  ELSE NaN

\* String.split(":") on the names that occur
SplitColon(str) ==
  CASE str = "Cust:1" -> <<"Cust", "1">>
    [] OTHER -> <<str>>

\* const existing = map.get(key) || []; existing.push(v); map.set(key, existing)
MapPush(map, key, v) ==
  LET \* a Map in insertion order: a sequence of [key, values] entries
      MapIndex(m, q) ==
        IF \E j \in 1..Len(m) : m[j].key = q
        THEN CHOOSE j \in 1..Len(m) : m[j].key = q
        ELSE 0
  IN IF MapIndex(map, key) # 0
     THEN [map EXCEPT ![MapIndex(map, key)].values = Append(@, v)]
     ELSE Append(map, [key |-> key, values |-> <<v>>])

RECURSIVE BuildObjectMap(_, _, _)
BuildObjectMap(ps, i, map) ==
  LET \* `${obj.type}:${obj.id}`, as the segments between the colons
      ObjectKey(obj) == <<obj.type, IntToStr(obj.id)>>
      RECURSIVE CollectObjects(_, _, _)
      CollectObjects(objs, j, m) ==
        IF j > Len(objs) THEN m
        ELSE CollectObjects(objs, j + 1, MapPush(m, ObjectKey(objs[j]), objs[j]))
  IN IF i > Len(ps) THEN map
     ELSE BuildObjectMap(ps, i + 1, CollectObjects(ps[i].objects, 1, map))

\* new Set(objects.map((o) => path.dirname(o.filePath)))
UniquePaths(objs) == {dirname(objs[j].filePath) : j \in 1..Len(objs)}

\* the test that turns a map entry into a conflict
IsObjectConflict(objs) == Len(objs) > 1 /\ Cardinality(UniquePaths(objs)) > 1

RECURSIVE ObjectConflicts(_, _)
ObjectConflicts(map, j) ==
  IF j > Len(map) THEN <<>>
  ELSE (IF IsObjectConflict(map[j].values)
        THEN <<[id |-> map[j].values[1].id, type |-> map[j].values[1].type,
                objects |-> map[j].values]>>
        ELSE <<>>)
       \o ObjectConflicts(map, j + 1)

RECURSIVE SortConflicts(_)
SortConflicts(cs) ==
  LET ConflictBefore(a, b) ==
        \/ TypeRank(a.type) < TypeRank(b.type)
        \/ (a.type = b.type /\ a.id < b.id)
      RECURSIVE InsertConflict(_, _)
      InsertConflict(sorted, c) ==
        IF sorted = <<>> THEN <<c>>
        ELSE IF ~ConflictBefore(c, sorted[Len(sorted)]) THEN Append(sorted, c)
        ELSE Append(InsertConflict(SubSeq(sorted, 1, Len(sorted) - 1), c), sorted[Len(sorted)])
  IN IF cs = <<>> THEN <<>>
     ELSE InsertConflict(SortConflicts(SubSeq(cs, 1, Len(cs) - 1)), cs[Len(cs)])

detectConflicts(ps) == SortConflicts(ObjectConflicts(BuildObjectMap(ps, 1, <<>>), 1))

\* only tableextensions with an extends clause and fields
HasExtensionFields(obj) ==
  /\ obj.type = "tableextension"
  /\ obj.extendsObject # NoString
  /\ obj.fields.defined
  /\ Len(obj.fields.items) > 0

RECURSIVE BuildFieldMap(_, _, _)
BuildFieldMap(ps, i, map) ==
  LET \* `${obj.extendsObject}:${field.id}`, as the segments between the colons
      FieldKey(obj, field) == SplitColon(obj.extendsObject) \o <<IntToStr(field.id)>>
      RECURSIVE CollectFields(_, _, _, _)
      CollectFields(obj, projectName, k, m) ==
        IF k > Len(obj.fields.items) THEN m
        ELSE CollectFields(obj, projectName, k + 1,
               MapPush(m, FieldKey(obj, obj.fields.items[k]),
                       [field |-> obj.fields.items[k], projectName |-> projectName,
                        extensionId |-> obj.id, extensionName |-> obj.name]))
      RECURSIVE CollectExtensions(_, _, _, _)
      CollectExtensions(objs, projectName, j, m) ==
        IF j > Len(objs) THEN m
        ELSE CollectExtensions(objs, projectName, j + 1,
               IF HasExtensionFields(objs[j])
               THEN CollectFields(objs[j], projectName, 1, m)
               ELSE m)
  IN IF i > Len(ps) THEN map
     ELSE BuildFieldMap(ps, i + 1, CollectExtensions(ps[i].objects, ps[i].name, 1, map))

\* new Set(fieldInfos.map((f) => f.projectName))
UniqueProjects(infos) == {infos[j].projectName : j \in 1..Len(infos)}

IsFieldConflict(infos) == Len(infos) > 1 /\ Cardinality(UniqueProjects(infos)) > 1

RECURSIVE FieldConflicts(_, _)
FieldConflicts(map, j) ==
  LET \* { ...info.field, projectName, extensionId, extensionName }
      FieldEntry(info) ==
        [id |-> info.field.id, name |-> info.field.name, dataType |-> info.field.dataType,
         lineNumber |-> info.field.lineNumber, filePath |-> info.field.filePath,
         projectName |-> info.projectName, extensionId |-> info.extensionId,
         extensionName |-> info.extensionName]
  IN IF j > Len(map) THEN <<>>
     ELSE (IF IsFieldConflict(map[j].values)
           THEN <<[fieldId |-> parseInt(map[j].key[2]),
                   baseTable |-> map[j].key[1],
                   fields |-> [k \in 1..Len(map[j].values) |-> FieldEntry(map[j].values[k])]]>>
           ELSE <<>>)
          \o FieldConflicts(map, j + 1)

BaseRank(nm) ==
  LET \* String.localeCompare on the base object names
      BaseNames == <<"Cust", "Cust:1", "Status", "Vend">>
  IN CHOOSE r \in 1..Len(BaseNames) : BaseNames[r] = nm

RECURSIVE SortFieldConflicts(_)
SortFieldConflicts(cs) ==
  LET \* a.fieldId - b.fieldId is NaN, and the pair is left in place, when one is NaN
      FieldConflictBefore(a, b) ==
        \/ BaseRank(a.baseTable) < BaseRank(b.baseTable)
        \/ /\ a.baseTable = b.baseTable
           /\ a.fieldId # NaN /\ b.fieldId # NaN
           /\ a.fieldId < b.fieldId
      RECURSIVE InsertFieldConflict(_, _)
      InsertFieldConflict(sorted, c) ==
        IF sorted = <<>> THEN <<c>>
        ELSE IF ~FieldConflictBefore(c, sorted[Len(sorted)]) THEN Append(sorted, c)
        ELSE Append(InsertFieldConflict(SubSeq(sorted, 1, Len(sorted) - 1), c),
                    sorted[Len(sorted)])
  IN IF cs = <<>> THEN <<>>
     ELSE InsertFieldConflict(SortFieldConflicts(SubSeq(cs, 1, Len(cs) - 1)), cs[Len(cs)])

detectFieldConflicts(ps) ==
  SortFieldConflicts(FieldConflicts(BuildFieldMap(ps, 1, <<>>), 1))

\* the map from `${obj.extendsObject}:${value.id}` (as the segments between
\* the colons) to the values declared under it; only enumextensions with an
\* extends clause and values are collected
RECURSIVE BuildValueMap(_, _, _)
BuildValueMap(ps, i, map) ==
  LET ValueKey(obj, value) == SplitColon(obj.extendsObject) \o <<IntToStr(value.id)>>
      HasExtensionValues(obj) ==
        /\ obj.type = "enumextension"
        /\ obj.extendsObject # NoString
        /\ obj.enumValues.defined
        /\ Len(obj.enumValues.items) > 0
      RECURSIVE CollectValues(_, _, _, _)
      CollectValues(obj, projectName, k, m) ==
        IF k > Len(obj.enumValues.items) THEN m
        ELSE CollectValues(obj, projectName, k + 1,
               MapPush(m, ValueKey(obj, obj.enumValues.items[k]),
                       [value |-> obj.enumValues.items[k], projectName |-> projectName,
                        extensionId |-> obj.id, extensionName |-> obj.name]))
      RECURSIVE CollectEnumExtensions(_, _, _, _)
      CollectEnumExtensions(objs, projectName, j, m) ==
        IF j > Len(objs) THEN m
        ELSE CollectEnumExtensions(objs, projectName, j + 1,
               IF HasExtensionValues(objs[j])
               THEN CollectValues(objs[j], projectName, 1, m)
               ELSE m)
  IN IF i > Len(ps) THEN map
     ELSE BuildValueMap(ps, i + 1, CollectEnumExtensions(ps[i].objects, ps[i].name, 1, map))

IsValueConflict(infos) == Len(infos) > 1 /\ Cardinality(UniqueProjects(infos)) > 1

\* each conflict lists { ...info.value, projectName, extensionId, extensionName }
RECURSIVE ValueConflicts(_, _)
ValueConflicts(map, j) ==
  LET ValueEntry(info) ==
        [id |-> info.value.id, name |-> info.value.name,
         lineNumber |-> info.value.lineNumber, filePath |-> info.value.filePath,
         projectName |-> info.projectName, extensionId |-> info.extensionId,
         extensionName |-> info.extensionName]
  IN IF j > Len(map) THEN <<>>
     ELSE (IF IsValueConflict(map[j].values)
           THEN <<[valueId |-> parseInt(map[j].key[2]),
                   baseEnum |-> map[j].key[1],
                   values |-> [k \in 1..Len(map[j].values) |-> ValueEntry(map[j].values[k])]]>>
           ELSE <<>>)
          \o ValueConflicts(map, j + 1)

\* sort by baseEnum.localeCompare, then valueId
RECURSIVE SortEnumValueConflicts(_)
SortEnumValueConflicts(cs) ==
  LET EnumValueConflictBefore(a, b) ==
        \/ BaseRank(a.baseEnum) < BaseRank(b.baseEnum)
        \/ /\ a.baseEnum = b.baseEnum
           /\ a.valueId # NaN /\ b.valueId # NaN
           /\ a.valueId < b.valueId
      RECURSIVE InsertEnumValueConflict(_, _)
      InsertEnumValueConflict(sorted, c) ==
        IF sorted = <<>> THEN <<c>>
        ELSE IF ~EnumValueConflictBefore(c, sorted[Len(sorted)]) THEN Append(sorted, c)
        ELSE Append(InsertEnumValueConflict(SubSeq(sorted, 1, Len(sorted) - 1), c),
                    sorted[Len(sorted)])
  IN IF cs = <<>> THEN <<>>
     ELSE InsertEnumValueConflict(SortEnumValueConflicts(SubSeq(cs, 1, Len(cs) - 1)),
                                  cs[Len(cs)])

detectEnumValueConflicts(ps) ==
  SortEnumValueConflicts(ValueConflicts(BuildValueMap(ps, 1, <<>>), 1))

(***************************************************************************)
(* The workspace as a state machine: the app.json files and the .al files  *)
(* are the input, a scan builds the projects, the detectors run on them.   *)
(***************************************************************************)
EmptyText == <<>>
ObjectText(kind, n, nm) == << <<Hdr(kind, n, nm)>>, <<LB>>, <<RB>> >>
ExtensionText(base, fieldId) ==
  << <<Hdr("tableextension", 2, "E"), Ext(base)>>, <<LB>>,
     <<FIELDS>>, <<LB>>, <<Fld(fieldId, "F", "Integer")>>, <<RB>>, <<RB>> >>

AppJsonNames == {NoString, "App1", "App2"}

InitConflicts ==
  LET FileTexts ==
        { EmptyText, ObjectText("table", 1, "T"), ObjectText("page", 1, "P"),
          ExtensionText("Cust", 1), ExtensionText("Vend", 1), ExtensionText("Cust:1", 2) }
  IN /\ ParserIdle /\ ExtensionIdle
     /\ apc = "input"
     /\ appJsons \in [1..Len(AppJsonDirs) -> AppJsonNames]
     /\ files \in [1..Len(AlFiles) -> FileTexts]
     /\ projects = <<>>
     /\ op = NoOp
     /\ result = <<>>

ScanWorkspace ==
  /\ apc = "input"
  /\ apc' = "scanned"
  /\ projects' = scanWorkspace(appJsons, files)
  /\ UNCHANGED <<appJsons, files, op, result, parserVars, extensionVars>>

DetectConflicts ==
  /\ apc = "scanned"
  /\ op' = [name |-> "detectConflicts", project |-> 0, objectType |-> ""]
  /\ result' = detectConflicts(projects)
  /\ UNCHANGED <<apc, appJsons, files, projects, parserVars, extensionVars>>

DetectFieldConflicts ==
  /\ apc = "scanned"
  /\ op' = [name |-> "detectFieldConflicts", project |-> 0, objectType |-> ""]
  /\ result' = detectFieldConflicts(projects)
  /\ UNCHANGED <<apc, appJsons, files, projects, parserVars, extensionVars>>

NextConflicts == ScanWorkspace \/ DetectConflicts \/ DetectFieldConflicts

SpecConflicts == InitConflicts /\ [][NextConflicts]_vars

(***************************************************************************)
(* UsedIdsTreeProvider.setProjects: the three detectors run on one scan    *)
(***************************************************************************)
\* a file that declares a table, a table extension with a field and an
\* enum extension with a value
TripleText ==
  ObjectText("table", 1, "T")
  \o ExtensionText("Cust", 1)
  \o << <<Hdr("enumextension", 3, "X"), Ext("Status")>>, <<LB>>,
        <<Val(1, "V")>>, <<RB>> >>

InitDetectors ==
  LET DetectorTexts == {EmptyText, TripleText}
  IN /\ ParserIdle /\ ExtensionIdle
     /\ apc = "input"
     /\ appJsons \in [1..Len(AppJsonDirs) -> AppJsonNames]
     /\ files \in [1..Len(AlFiles) -> DetectorTexts]
     /\ projects = <<>>
     /\ op = NoOp
     /\ result = <<>>

\* what setProjects leaves in the provider, for either value of sharedRangeMode
SetProjects ==
  /\ apc = "scanned"
  /\ \E isSharedRangeMode \in BOOLEAN :
       /\ op' = [name |-> IF isSharedRangeMode THEN "setProjects:shared"
                          ELSE "setProjects", project |-> 0, objectType |-> ""]
       /\ result' =
            IF isSharedRangeMode
            THEN [conflicts |-> detectConflicts(projects),
                  fieldConflicts |-> detectFieldConflicts(projects),
                  enumValueConflicts |-> detectEnumValueConflicts(projects)]
            ELSE [conflicts |-> <<>>, fieldConflicts |-> <<>>,
                  enumValueConflicts |-> <<>>]
  /\ UNCHANGED <<apc, appJsons, files, projects, parserVars, extensionVars>>

NextDetectors == ScanWorkspace \/ SetProjects

SpecDetectors == InitDetectors /\ [][NextDetectors]_vars

(***************************************************************************)
(* The scanned projects and what reads them afterwards: the gap and range   *)
(* computations, setProjects, and UsedIdsTreeProvider.getChildren on an     *)
(* object node                                                              *)
(***************************************************************************)
InitSnapshot ==
  LET \* a table whose fields and an enum whose values are not declared in
      \* the order of their ids
      TableText ==
        << <<Hdr("table", 1, "T")>>, <<LB>>, <<FIELDS>>, <<LB>>,
           <<Fld(2, "G", "Code")>>, <<Fld(1, "F", "Integer")>>, <<RB>>, <<RB>> >>
      EnumText ==
        << <<Hdr("enum", 2, "E")>>, <<LB>>, <<Val(1, "B")>>, <<Val(0, "A")>>, <<RB>> >>
  IN /\ ParserIdle /\ ExtensionIdle
     /\ apc = "input"
     /\ appJsons \in [1..Len(AppJsonDirs) -> AppJsonNames]
     /\ files \in [1..Len(AlFiles) -> {EmptyText, TableText, EnumText}]
     /\ projects = <<>>
     /\ op = NoOp
     /\ result = <<>>

\* getChildren(element) for an element of type "object": the items of its
\* fields or values; Array.prototype.sort sorts the array it is called on
GetChildren ==
  LET RECURSIVE SortById(_)
      SortById(xs) ==
        LET RECURSIVE Insert(_, _)
            Insert(sorted, x) ==
              IF sorted = <<>> THEN <<x>>
              ELSE IF sorted[Len(sorted)].id <= x.id THEN Append(sorted, x)
              ELSE Append(Insert(SubSeq(sorted, 1, Len(sorted) - 1), x),
                          sorted[Len(sorted)])
        IN IF xs = <<>> THEN <<>>
           ELSE Insert(SortById(SubSeq(xs, 1, Len(xs) - 1)), xs[Len(xs)])
      Items(ty, xs, projectName, extensionName) ==
        [k \in 1..Len(xs) |->
           [type |-> ty, id |-> xs[k].id, name |-> xs[k].name,
            lineNumber |-> xs[k].lineNumber, projectName |-> projectName,
            extensionName |-> extensionName]]
  IN /\ apc = "scanned"
     /\ \E p \in 1..Len(projects) : \E j \in 1..Len(projects[p].objects) :
          LET obj == projects[p].objects[j]
              showFields == IsTableLike(obj.type) /\ obj.fields.defined
                            /\ Len(obj.fields.items) > 0
              showValues == IsEnumLike(obj.type) /\ obj.enumValues.defined
                            /\ Len(obj.enumValues.items) > 0
              fields == IF showFields THEN SortById(obj.fields.items)
                        ELSE obj.fields.items
              enumValues == IF showValues THEN SortById(obj.enumValues.items)
                            ELSE obj.enumValues.items
          IN /\ op' = [name |-> "getChildren", project |-> p, objectType |-> obj.type]
             /\ projects' = [projects EXCEPT
                               ![p].objects[j].fields.items = fields,
                               ![p].objects[j].enumValues.items = enumValues]
             /\ result' =
                  (IF showFields
                   THEN Items("field", fields, projects[p].name, obj.name) ELSE <<>>)
                  \o (IF showValues
                      THEN Items("enumValue", enumValues, projects[p].name, obj.name)
                      ELSE <<>>)
     /\ UNCHANGED <<apc, appJsons, files, parserVars, extensionVars>>

NextSnapshot ==
  ScanWorkspace \/ CalculateGaps \/ GetSharedRanges \/ SetProjects \/ GetChildren

SpecSnapshot == InitSnapshot /\ [][NextSnapshot]_vars

(***************************************************************************)
(* parseContent on a source unit before and after one of its header lines  *)
(* is turned into a single-line comment                                    *)
(***************************************************************************)

EditContents ==
  LET EditLines ==
        { <<Hdr("table", 1, "T")>>, <<Hdr("page", 2, "P"), BO>>,
          <<BC, Hdr("enum", 3, "E")>>, <<BO, WORD, BC, Hdr("query", 4, "Q")>>,
          <<BO>>, <<BC>> }
  IN UNION {[1..k -> EditLines] : k \in 1..MaxEditLines}

InitEdit ==
  /\ ParserIdle /\ ExtensionIdle
  /\ apc = "input"
  /\ appJsons = <<>>
  /\ files \in {<<c>> : c \in EditContents}
  /\ projects = <<>>
  /\ op = NoOp
  /\ result = <<>>

\* parseContent(content) and parseContent(content with line i commented out),
\* for a line i that is a declaration header of content
CommentOutHeader ==
  LET \* the two ways to make a line a single-line comment: `//` put in front of
      \* its text, or the text replaced by `// word`
      CommentedOut(l, style) == IF style = "prefix" THEN <<LC>> \o l ELSE <<LC, WORD>>
      HeaderLineNumbers(objs) == {objs[j].lineNumber : j \in 1..Len(objs)}
  IN /\ apc = "input"
     /\ \E i \in HeaderLineNumbers(parseContent(files[1], UnitPath)) :
          \E style \in {"prefix", "replace"} :
            /\ op' = [name |-> "commentOut", project |-> i, objectType |-> style]
            /\ result' =
                 [before |-> parseContent(files[1], UnitPath),
                  after |-> parseContent(
                              [files[1] EXCEPT ![i] = CommentedOut(@, style)], UnitPath)]
     /\ apc' = "parsed"
     /\ UNCHANGED <<appJsons, files, projects, parserVars, extensionVars>>

NextEdit == CommentOutHeader

SpecEdit == InitEdit /\ [][NextEdit]_vars

(***************************************************************************)
(* schemas.ts: parseAppJson on the text of an app.json.  A text is either   *)
(* no JSON, a JSON value that is no object, or an object; an optional       *)
(* property is absent (Undefined) or holds its value (Arr(<<value>>)).      *)
(***************************************************************************)
\* mutant: a single idRange is dropped instead of wrapped
AppJsonSchema_DropsIdRange(json) ==
  LET IdRangeSchema(r) == r.from > 0 /\ r.to > 0 /\ r.to >= r.from
      String1(f) == f.defined /\ f.items[1] # ""
      valid ==
        /\ json.kind = "object"
        /\ String1(json.id) /\ String1(json.name)
        /\ String1(json.publisher) /\ String1(json.version)
        /\ json.idRanges.defined =>
             \A k \in 1..Len(json.idRanges.items[1]) :
               IdRangeSchema(json.idRanges.items[1][k])
        /\ json.idRange.defined => IdRangeSchema(json.idRange.items[1])
      ranges == IF json.idRanges.defined THEN json.idRanges.items[1] ELSE <<>>
  IN IF ~valid THEN [success |-> FALSE, data |-> <<>>]
     ELSE [success |-> TRUE,
           data |-> <<[id |-> json.id.items[1], name |-> json.name.items[1],
                       publisher |-> json.publisher.items[1],
                       version |-> json.version.items[1], idRanges |-> ranges]>>]

\* AppJsonSchema: z.object({...}).transform(...), with IdRangeSchema and
\* z.string().min(1)
AppJsonSchema(json) ==
  LET IdRangeSchema(r) == r.from > 0 /\ r.to > 0 /\ r.to >= r.from
      String1(f) == f.defined /\ f.items[1] # ""
      valid ==
        /\ json.kind = "object"
        /\ String1(json.id) /\ String1(json.name)
        /\ String1(json.publisher) /\ String1(json.version)
        /\ json.idRanges.defined =>
             \A k \in 1..Len(json.idRanges.items[1]) :
               IdRangeSchema(json.idRanges.items[1][k])
        /\ json.idRange.defined => IdRangeSchema(json.idRange.items[1])
      \* data.idRanges ?? (data.idRange ? [data.idRange] : [])
      ranges == IF json.idRanges.defined THEN json.idRanges.items[1]
                ELSE IF json.idRange.defined THEN <<json.idRange.items[1]>>
                ELSE <<>>
  IN IF ~valid THEN [success |-> FALSE, data |-> <<>>]
     ELSE [success |-> TRUE,
           data |-> <<[id |-> json.id.items[1], name |-> json.name.items[1],
                       publisher |-> json.publisher.items[1],
                       version |-> json.version.items[1], idRanges |-> ranges]>>]

\* try { return AppJsonSchema.parse(JSON.parse(content)) } catch { return null }
\* the result is <<>> for null and <<record>> for a record
parseAppJson(content) ==
  IF content.kind = "no json" THEN <<>>
  ELSE IF AppJsonSchema(content).success THEN AppJsonSchema(content).data
  ELSE <<>>

InitManifest ==
  LET Strings == {Undefined, Arr(<<"">>), Arr(<<"App1">>)}
      RangeTexts == {[from |-> 1, to |-> 2], [from |-> 3, to |-> 3],
                     [from |-> 2, to |-> 1], [from |-> 0, to |-> 1]}
      RangeListTexts == UNION {[1..k -> RangeTexts] : k \in 0..MaxRanges}
      Objects ==
        [kind : {"object"}, id : Strings, name : Strings, publisher : Strings,
         version : Strings,
         idRanges : {Undefined} \cup {Arr(<<rs>>) : rs \in RangeListTexts},
         idRange : {Undefined} \cup {Arr(<<r>>) : r \in RangeTexts}]
      Others ==
        [kind : {"no json", "number"}, id : {Undefined}, name : {Undefined},
         publisher : {Undefined}, version : {Undefined},
         idRanges : {Undefined}, idRange : {Undefined}]
  IN /\ ParserIdle /\ ExtensionIdle
     /\ apc = "input"
     /\ appJsons \in {<<c>> : c \in Objects \cup Others}
     /\ files = <<>>
     /\ projects = <<>>
     /\ op = NoOp
     /\ result = <<>>

ParseAppJson ==
  /\ apc = "input"
  /\ apc' = "parsed"
  /\ op' = [name |-> "parseAppJson", project |-> 0, objectType |-> ""]
  /\ result' = parseAppJson(appJsons[1])
  /\ UNCHANGED <<appJsons, files, projects, parserVars, extensionVars>>

SpecManifest == InitManifest /\ [][ParseAppJson]_vars

(***************************************************************************)
(* objectIdCompletionProvider.ts: the suggested next id for a document, in  *)
(* normal mode.  A path is the sequence of its characters, so that          *)
(* String.startsWith is the prefix relation on sequences.                   *)
(***************************************************************************)
startsWith(str, prefix) ==
  Len(prefix) <= Len(str) /\ SubSeq(str, 1, Len(prefix)) = prefix

\* the projects as setProjects received them, in any order, and the path of
\* the document (files[1]); each project has one range of its own and may
\* have used its first id
InitCompletion ==
  LET Roots == { <<"/", "a">>, <<"/", "a", "/", "b">>, <<"/", "a", "b">> }
      First(root) == 2 * Len(root) - 3
      Projects(root) ==
        { [name |-> "App1", rootPath |-> root,
           idRanges |-> <<[from |-> First(root), to |-> First(root) + 1]>>,
           objects |-> os] :
          os \in { <<>>,
                   <<[type |-> "page", id |-> First(root), name |-> "Obj",
                      lineNumber |-> 1, filePath |-> root \o <<"/", "t">>,
                      extendsObject |-> NoString, fields |-> Undefined,
                      enumValues |-> Undefined]>> } }
      Lists ==
        UNION { { ps \in [1..k -> UNION {Projects(r) : r \in Roots}] :
                    \A x, y \in 1..k : x # y => ps[x].rootPath # ps[y].rootPath } :
                k \in 1..3 }
      Documents == { r \o <<"/", "t">> : r \in Roots } \cup { <<"/", "c", "/", "t">> }
  IN /\ ParserIdle /\ ExtensionIdle
     /\ apc = "scanned"
     /\ appJsons = <<>>
     /\ files \in {<<d>> : d \in Documents}
     /\ projects \in Lists
     /\ op = NoOp
     /\ result = <<>>

\* provideCompletionItems in normal mode: nextId, through findProjectForDocument
ProvideCompletionItems ==
  LET RECURSIVE findProjectForDocument(_, _, _, _)
      findProjectForDocument(documentPath, k, bestMatch, bestMatchLength) ==
        IF k > Len(projects) THEN bestMatch
        ELSE IF /\ startsWith(documentPath, projects[k].rootPath)
                /\ Len(projects[k].rootPath) > bestMatchLength
             THEN findProjectForDocument(documentPath, k + 1, k,
                                         Len(projects[k].rootPath))
             ELSE findProjectForDocument(documentPath, k + 1, bestMatch,
                                         bestMatchLength)
      project == findProjectForDocument(files[1], 1, 0, 0)
  IN /\ apc = "scanned"
     /\ op' = [name |-> "provideCompletionItems", project |-> project,
               objectType |-> "page"]
     /\ result' = IF project # 0 THEN getNextAvailableId(projects[project]) ELSE Null
     /\ UNCHANGED <<apc, appJsons, files, projects, parserVars, extensionVars>>

\* ObjectIdCompletionProvider.getNextAvailableId(documentPath, objectType,
\* false): the first project whose rootPath the path starts with
GetNextAvailableIdForPath ==
  LET matches == {k \in 1..Len(projects) : startsWith(files[1], projects[k].rootPath)}
      project == IF matches = {} THEN 0
                 ELSE CHOOSE k \in matches : \A l \in matches : k <= l
  IN /\ apc = "scanned"
     /\ op' = [name |-> "getNextAvailableId(documentPath)", project |-> project,
               objectType |-> "page"]
     /\ result' = IF project # 0 THEN getNextAvailableId(projects[project]) ELSE Null
     /\ UNCHANGED <<apc, appJsons, files, projects, parserVars, extensionVars>>

NextCompletion == ProvideCompletionItems \/ GetNextAvailableIdForPath

SpecCompletion == InitCompletion /\ [][NextCompletion]_vars

(***************************************************************************)
(* fileWatcher.ts: ALFileWatcher.  Time is a clock of ticks; a timer set    *)
(* with setTimeout(f, delay) runs f when the clock shows its due time.      *)
(***************************************************************************)
NoTimer == [defined |-> FALSE, pending |-> FALSE, due |-> 0]

\* refreshAnalysis up to its first await: a scan of the workspace is in flight.
\* overlaps records whether an earlier refresh was still in flight then.
NewRefresh ==
  [state |-> "scanning", result |-> 0,
   overlaps |-> \E i \in 1..Len(refreshes) : refreshes[i].state # "done"]

\* the constructor: setupConfigListener(); applyConfiguration(), for either
\* value of the setting
InitWatcher ==
  /\ ParserIdle /\ AnalysisIdle
  /\ autoRefresh \in BOOLEAN
  /\ autoRefreshDelay \in 1..MaxDelay
  /\ watcher = autoRefresh
  /\ appJsonWatcher = autoRefresh
  /\ debounceTimer = NoTimer
  /\ now = 0
  /\ history = <<>>
  /\ refreshes = <<>>
  /\ usedIdsProvider = 0
  /\ unusedIdsProvider = 0

\* the setting bcObjectRange.autoRefresh changes: the config listener calls
\* applyConfiguration, which calls startWatching or stopWatching
ChangeConfiguration ==
  /\ \E value \in BOOLEAN :
       /\ autoRefresh' = value
       /\ IF value
          THEN \* startWatching
               IF watcher
               THEN UNCHANGED <<watcher, appJsonWatcher, debounceTimer>>
               ELSE /\ watcher' = TRUE
                    /\ appJsonWatcher' = TRUE
                    /\ UNCHANGED debounceTimer
          ELSE \* stopWatching: the timer and this.watcher only
               /\ debounceTimer' = NoTimer
               /\ watcher' = FALSE
               /\ UNCHANGED appJsonWatcher
  /\ UNCHANGED <<autoRefreshDelay, now, history, refreshes, usedIdsProvider,
                 unusedIdsProvider, parserVars, analysisVars>>

\* mutant: handleChange leaves a pending timer as it is
FileEvent_KeepsTimer ==
  /\ Len(history) < MaxEvents
  /\ \E file \in {"al", "app.json"} :
       /\ history' = Append(history, [kind |-> "event", file |-> file, at |-> now,
                                      autoRefresh |-> autoRefresh])
       /\ IF /\ (file = "al" /\ watcher) \/ (file = "app.json" /\ appJsonWatcher)
             /\ ~debounceTimer.pending
          THEN debounceTimer' = [defined |-> TRUE, pending |-> TRUE,
                                 due |-> now + autoRefreshDelay]
          ELSE UNCHANGED debounceTimer
  /\ UNCHANGED <<autoRefresh, autoRefreshDelay, watcher, appJsonWatcher, now,
                 refreshes, usedIdsProvider, unusedIdsProvider, parserVars,
                 analysisVars>>

\* a file is created, changed or deleted; a live watcher of its pattern
\* calls handleChange
FileEvent ==
  /\ Len(history) < MaxEvents
  /\ \E file \in {"al", "app.json"} :
       /\ history' = Append(history, [kind |-> "event", file |-> file, at |-> now,
                                      autoRefresh |-> autoRefresh])
       /\ IF (file = "al" /\ watcher) \/ (file = "app.json" /\ appJsonWatcher)
          THEN debounceTimer' = [defined |-> TRUE, pending |-> TRUE,
                                 due |-> now + autoRefreshDelay]
          ELSE UNCHANGED debounceTimer
  /\ UNCHANGED <<autoRefresh, autoRefreshDelay, watcher, appJsonWatcher, now,
                 refreshes, usedIdsProvider, unusedIdsProvider, parserVars,
                 analysisVars>>

\* the debounce timer runs out: () => this.onFilesChanged(), which is
\* refreshAnalysis()
Timeout ==
  /\ debounceTimer.pending /\ debounceTimer.due = now
  /\ debounceTimer' = [debounceTimer EXCEPT !.pending = FALSE]
  /\ refreshes' = Append(refreshes, NewRefresh)
  /\ history' = Append(history, [kind |-> "timer", file |-> "", at |-> now,
                                 autoRefresh |-> autoRefresh])
  /\ UNCHANGED <<autoRefresh, autoRefreshDelay, watcher, appJsonWatcher, now,
                 usedIdsProvider, unusedIdsProvider, parserVars, analysisVars>>

\* forceRefresh, the command bcObjectRange.refresh: clears the timer and
\* calls onFilesChanged
ForceRefresh ==
  /\ Len(history) < MaxEvents
  /\ debounceTimer' = IF debounceTimer.defined THEN NoTimer ELSE debounceTimer
  /\ refreshes' = Append(refreshes, NewRefresh)
  /\ history' = Append(history, [kind |-> "manual", file |-> "", at |-> now,
                                 autoRefresh |-> autoRefresh])
  /\ UNCHANGED <<autoRefresh, autoRefreshDelay, watcher, appJsonWatcher, now,
                 usedIdsProvider, unusedIdsProvider, parserVars, analysisVars>>

\* the clock advances, unless a timer is due now
Tick ==
  /\ now < MaxTime
  /\ ~(debounceTimer.pending /\ debounceTimer.due = now)
  /\ now' = now + 1
  /\ UNCHANGED <<autoRefresh, autoRefreshDelay, watcher, appJsonWatcher,
                 debounceTimer, history, refreshes, usedIdsProvider,
                 unusedIdsProvider, parserVars, analysisVars>>

NextWatcher == ChangeConfiguration \/ FileEvent \/ Timeout \/ ForceRefresh \/ Tick

SpecWatcher == InitWatcher /\ [][NextWatcher]_vars

\* the watcher while the setting autoRefresh stays as it is
NextDebounce == FileEvent \/ Timeout \/ ForceRefresh \/ Tick

SpecDebounce == InitWatcher /\ [][NextDebounce]_vars

(***************************************************************************)
(* extension.ts: refreshAnalysis.  Each call is a refresh of its own; its   *)
(* scan runs across awaits, so the steps of several refreshes interleave.   *)
(* The content of the workspace is the number of file events so far.        *)
(***************************************************************************)
\* the extension is active with the setting autoRefresh off, so that refreshes
\* start from the commands only
InitRefresh ==
  /\ ParserIdle /\ AnalysisIdle
  /\ autoRefresh = FALSE
  /\ autoRefreshDelay \in 1..MaxDelay
  /\ watcher = FALSE
  /\ appJsonWatcher = FALSE
  /\ debounceTimer = NoTimer
  /\ now = 0
  /\ history = <<>>
  /\ refreshes = <<>>
  /\ usedIdsProvider = 0
  /\ unusedIdsProvider = 0

\* the command bcObjectRange.analyze: refreshAnalysis()
Analyze ==
  /\ Len(refreshes) < MaxRefreshes
  /\ refreshes' = Append(refreshes, NewRefresh)
  /\ UNCHANGED <<autoRefresh, autoRefreshDelay, watcher, appJsonWatcher,
                 debounceTimer, now, history, usedIdsProvider, unusedIdsProvider,
                 parserVars, analysisVars>>

\* scanWorkspace of one refresh in flight reads the workspace as it is now
FindFiles ==
  LET content == Cardinality({e \in 1..Len(history) : history[e].kind = "event"})
  IN /\ \E i \in 1..Len(refreshes) :
          /\ refreshes[i].state = "scanning"
          /\ refreshes' = [refreshes EXCEPT ![i] = [@ EXCEPT !.state = "scanned",
                                                              !.result = content]]
     /\ UNCHANGED <<autoRefresh, autoRefreshDelay, watcher, appJsonWatcher,
                    debounceTimer, now, history, usedIdsProvider,
                    unusedIdsProvider, parserVars, analysisVars>>

\* scanWorkspace of one refresh resolves: usedIdsProvider.setProjects(projects);
\* unusedIdsProvider.setProjects(projects), with no await between the two
CompleteRefresh ==
  /\ \E i \in 1..Len(refreshes) :
       /\ refreshes[i].state = "scanned"
       /\ refreshes' = [refreshes EXCEPT ![i].state = "done"]
       /\ usedIdsProvider' = i
       /\ unusedIdsProvider' = i
  /\ UNCHANGED <<autoRefresh, autoRefreshDelay, watcher, appJsonWatcher,
                 debounceTimer, now, history, parserVars, analysisVars>>

NextRefresh == Analyze \/ ForceRefresh \/ FileEvent \/ FindFiles \/ CompleteRefresh

SpecRefresh == InitRefresh /\ [][NextRefresh]_vars

(***************************************************************************)
(* Claims about the parser                                                 *)
(***************************************************************************)
FieldLineNumbers(o) == {o.fields.items[j].lineNumber : j \in 1..Len(o.fields.items)}
ValueLineNumbers(o) == {o.enumValues.items[j].lineNumber : j \in 1..Len(o.enumValues.items)}
ChildLineNumbers(o) == FieldLineNumbers(o) \cup ValueLineNumbers(o)

\* C3: once a block comment is open at the end of a line, a following line
\* without the close marker matches nothing (no header, field, value or
\* brace), and a line with the close marker is scanned from the text after
\* that marker only.
C3_OpenBlockCommentSuppressesMatching ==
  [][ (pc = "loop" /\ lexInBlock /\ lineNumber' = lineNumber + 1) =>
        LET endIndex == IndexOf(line', "*/")
            rest == SubSeq(line', endIndex + 1, Len(line'))
            outside == [ParserState EXCEPT !.inMultiLineComment = FALSE]
            expected == IF endIndex = 0 THEN ParserState
                        ELSE ParseLine(outside, rest, lineNumber', UnitPath)
        IN /\ objects' = expected.objects
           /\ braceDepth' = expected.braceDepth
           /\ currentObject' = expected.currentObject
           /\ inFieldsBlock' = expected.inFieldsBlock
           /\ expectingFieldsBlockBrace' = expected.expectingFieldsBlockBrace ]_vars

\* C4: every field and value is recorded in the one declaration whose scope
\* its line lies in (after that declaration's header, before the next
\* header, not after the line that closed the scope), and a declaration
\* whose scope has closed is never changed by a later line.
C4_ChildrenStayInScope ==
  /\ [](\A k \in 1..Len(objects) : \A n \in ChildLineNumbers(objects[k]) :
          /\ n > objects[k].lineNumber
          /\ (k < Len(objects) => n < objects[k + 1].lineNumber)
          /\ (scopeClosedAt[k] # 0 => n <= scopeClosedAt[k]))
  /\ [][\A k \in 1..Len(objects) :
          scopeClosedAt[k] # 0 => objects'[k] = objects[k]]_vars

\* C4 witness: a declaration with a recorded field has closed, and a later
\* field-shaped line has been read
C4_Witness ==
  /\ Len(objects) >= 1
  /\ scopeClosedAt[1] # 0
  /\ FieldLineNumbers(objects[1]) # {}
  /\ lineNumber > scopeClosedAt[1]
  /\ FIELD_PATTERN(line)

\* C5 as stated: the line of every field and value lies strictly between
\* the header line of its declaration and the line that closes its scope.
C5_ChildLinesStrictlyInside ==
  \A k \in 1..Len(objects) : \A n \in ChildLineNumbers(objects[k]) :
    /\ n > objects[k].lineNumber
    /\ (scopeClosedAt[k] # 0 => n < scopeClosedAt[k])

\* C5 amended: the line of every field and value lies strictly after the
\* header line of its declaration and not after the line that closes its
\* scope; a value lies strictly before the closing line, a field may lie
\* on the closing line itself.
C5_ChildLinesInsideOrOnClose ==
  \A k \in 1..Len(objects) :
    /\ \A n \in FieldLineNumbers(objects[k]) :
         /\ n > objects[k].lineNumber
         /\ (scopeClosedAt[k] # 0 => n <= scopeClosedAt[k])
    /\ \A n \in ValueLineNumbers(objects[k]) :
         /\ n > objects[k].lineNumber
         /\ (scopeClosedAt[k] # 0 => n < scopeClosedAt[k])

\* C5 witness: a closed declaration holds a field recorded on its closing line
C5_Witness ==
  \E k \in 1..Len(objects) :
    /\ scopeClosedAt[k] # 0
    /\ scopeClosedAt[k] \in FieldLineNumbers(objects[k])

\* the line without the braces that lie inside a comment, for a reader
\* that starts the line inside (inBlock) or outside of a block comment
RECURSIVE DropCommentBraces(_, _)
DropCommentBraces(mode, s) ==
  IF s = <<>> THEN <<>>
  ELSE IF mode # "code" /\ (Head(s).t = "{" \/ Head(s).t = "}")
       THEN DropCommentBraces(mode, Tail(s))
  ELSE <<Head(s)>> \o
       DropCommentBraces(
         CASE mode = "block" /\ Head(s).t = "*/" -> "code"
           [] mode = "code" /\ Head(s).t = "//" -> "line"
           [] mode = "code" /\ Head(s).t = "/*" -> "block"
           [] OTHER -> mode,
         Tail(s))

HasCommentBrace(inBlock, s) ==
  DropCommentBraces(IF inBlock THEN "block" ELSE "code", s) # s

\* C13: braces inside a comment (a line comment, a block comment closed on
\* the same line, the part of a line inside a block comment that spans
\* lines) never change the brace depth: after every line the depth is what
\* it would be had the line been read without those braces.
C13_CommentBracesKeepDepth ==
  [][ (pc = "loop" /\ lineNumber' = lineNumber + 1) =>
        braceDepth' =
          ParseLine(ParserState,
                    DropCommentBraces(IF lexInBlock THEN "block" ELSE "code", line'),
                    lineNumber', UnitPath).braceDepth ]_vars

\* the case C13 is about: a declaration is open and a line with a brace
\* inside a comment has been read
C13_Witness ==
  /\ pc = "loop"
  /\ currentObject # 0
  /\ lineNumber >= 2
  /\ \E b \in BOOLEAN : HasCommentBrace(b, line)

\* the comment-stripped text of a line, for a scanner in the given comment state
CleanedLine(inComment, l) ==
  LET cont == CommentContinuation(inComment, l)
  IN IF cont.skip THEN <<>> ELSE stripComments(cont.text)

\* the line enters a fields sub-block: `fields {` on the line, or an open
\* brace while the brace of an earlier `fields` is expected
EntersFieldsBlock(cl) ==
  \/ FieldsWithBrace(cl)
  \/ (expectingFieldsBlockBrace /\ Count(cl, "{") > 0)

FieldsAfter(k) == objects'[k].fields.items
FieldsBefore(k) == IF k <= Len(objects) THEN objects[k].fields.items ELSE <<>>

\* C14: a field line is recorded for a table or table-extension declaration
\* only while the scanner is inside that declaration's fields sub-block,
\* which is entered at `fields {` or at the open brace that follows a
\* `fields` at the end of an earlier line, and which ends as soon as the
\* brace depth is below the depth recorded at entry; field-shaped lines
\* before the entry or after the end are not recorded.
C14_FieldsOnlyInsideFieldsBlock ==
  /\ [](inFieldsBlock =>
          /\ currentObject # 0
          /\ IsTableLike(objects[currentObject].type)
          /\ braceDepth >= fieldsBlockDepth)
  /\ [][ (pc = "loop" /\ lineNumber' = lineNumber + 1) =>
           LET cl == CleanedLine(inMultiLineComment, line')
           IN /\ \A k \in 1..Len(objects') :
                   FieldsAfter(k) # FieldsBefore(k) =>
                     /\ k = currentObject
                     /\ IsTableLike(objects[k].type)
                     /\ FIELD_PATTERN(cl)
                     /\ (inFieldsBlock \/ EntersFieldsBlock(cl))
                     /\ FieldsAfter(k) =
                          Append(FieldsBefore(k),
                                 [id |-> cl[1].id, name |-> cl[1].name,
                                  dataType |-> cl[1].dataType,
                                  lineNumber |-> lineNumber', filePath |-> UnitPath])
              /\ (~inFieldsBlock /\ inFieldsBlock') => EntersFieldsBlock(cl)
              /\ (~expectingFieldsBlockBrace /\ expectingFieldsBlockBrace')
                   => FieldsAtEnd(cl) ]_vars

\* C14 witness: a table has left its fields sub-block with a recorded field
\* and a later field-shaped line has been read and not recorded
C14_Witness ==
  /\ pc = "loop"
  /\ currentObject # 0
  /\ ~inFieldsBlock
  /\ Len(objects[currentObject].fields.items) > 0
  /\ FIELD_PATTERN(line)
  /\ lineNumber \notin FieldLineNumbers(objects[currentObject])

\* the value record that a value line at the given line number stands for
ValueOf(cl, ln) ==
  [id |-> cl[1].id, name |-> cl[1].name, lineNumber |-> ln, filePath |-> UnitPath]

\* C15: for an enum or enum-extension declaration, every value line met
\* while the brace depth of the declaration is greater than 0 is appended to
\* its values in source order (the ordinal 0 included), and a value line met
\* while the depth is 0 is not recorded.
C15_ValuesRecordedAtPositiveDepth ==
  [][ (/\ pc = "loop" /\ lineNumber' = lineNumber + 1
       /\ currentObject # 0
       /\ IsEnumLike(objects[currentObject].type)
       /\ ENUM_VALUE_PATTERN(CleanedLine(inMultiLineComment, line'))) =>
        objects'[currentObject].enumValues.items =
          IF braceDepth > 0
          THEN Append(objects[currentObject].enumValues.items,
                      ValueOf(CleanedLine(inMultiLineComment, line'), lineNumber'))
          ELSE objects[currentObject].enumValues.items ]_vars

\* the case C15 is about: a value line has been read for an open enum at
\* positive depth, and the ordinal 0 has been recorded
C15_Witness ==
  /\ pc = "loop"
  /\ ENUM_VALUE_PATTERN(line)
  /\ \E k \in 1..Len(objects) :
       /\ IsEnumLike(objects[k].type)
       /\ objects[k].lineNumber < lineNumber
       /\ \E j \in 1..Len(objects[k].enumValues.items) :
            objects[k].enumValues.items[j].id = 0

\* the declarations of a result that lie on lines before line n
RECURSIVE DeclaredBefore(_, _)
DeclaredBefore(objs, n) ==
  IF objs = <<>> THEN <<>>
  ELSE (IF Head(objs).lineNumber < n THEN <<Head(objs).lineNumber>> ELSE <<>>)
       \o DeclaredBefore(Tail(objs), n)

OneFewerDeclaration ==
  /\ Len(result.after) = Len(result.before) - 1
  /\ DeclaredBefore(result.after, op.project) = DeclaredBefore(result.before, op.project)

HasBlockMarker(l) == IndexOf(l, "/*") # 0 \/ IndexOf(l, "*/") # 0

\* C16 as stated: for every text unit, turning a declaration header line
\* into a single-line comment gives exactly one declaration fewer, and the
\* declarations on the lines before the edit keep their line numbers.
C16_CommentingOutRemovesOne ==
  op.name = "commentOut" => OneFewerDeclaration

\* C16 amended: the same, for a header line that carries no block-comment
\* marker (no comment opens or closes on the line).
C16_CommentingOutPlainHeaderRemovesOne ==
  (op.name = "commentOut" /\ ~HasBlockMarker(files[1][op.project]))
    => OneFewerDeclaration

\* C16 witness: a plain header between two other declarations was commented out
C16_Witness ==
  /\ op.name = "commentOut"
  /\ ~HasBlockMarker(files[1][op.project])
  /\ \E j \in 1..Len(result.after) : result.after[j].lineNumber < op.project
  /\ \E j \in 1..Len(result.after) : result.after[j].lineNumber > op.project
  /\ \E n \in 1..Len(files[1]) : HasBlockMarker(files[1][n])

\* the position of the marker that starts a line comment, for a reader that
\* starts the line inside (inBlock) or outside of a block comment; 0 if none
RECURSIVE LineCommentAt(_, _, _)
LineCommentAt(inBlock, s, j) ==
  IF j > Len(s) THEN 0
  ELSE IF inBlock THEN LineCommentAt(s[j].t # "*/", s, j + 1)
  ELSE IF s[j].t = "//" THEN j
  ELSE LineCommentAt(s[j].t = "/*", s, j + 1)

\* a line comment starts on the line and a block-comment open follows it
LineCommentHidesOpen(inBlock, s) ==
  /\ LineCommentAt(inBlock, s, 1) # 0
  /\ \E q \in (LineCommentAt(inBlock, s, 1) + 1)..Len(s) : s[q].t = "/*"

\* C17: when a line-comment marker comes before an unterminated block-comment
\* open on the same line, no block comment starts: the line is scanned as
\* the text before the line comment, and the following lines are scanned
\* normally (the scanner is not inside a comment after the line).
C17_LineCommentHidesBlockOpen ==
  [][ (/\ pc = "loop" /\ lineNumber' = lineNumber + 1
       /\ LineCommentHidesOpen(lexInBlock, line')) =>
        LET p == LineCommentAt(lexInBlock, line', 1)
            expected == ParseLine(ParserState, SubSeq(line', 1, p - 1),
                                  lineNumber', UnitPath)
        IN /\ ~inMultiLineComment'
           /\ objects' = expected.objects
           /\ braceDepth' = expected.braceDepth
           /\ currentObject' = expected.currentObject
           /\ inFieldsBlock' = expected.inFieldsBlock
           /\ expectingFieldsBlockBrace' = expected.expectingFieldsBlockBrace ]_vars

\* C17 witness: the line `table 1 T // /*` was read, and the header on the
\* line after it has been recorded
C17_Witness ==
  /\ pc = "loop"
  /\ lineNumber >= 2
  /\ ~inMultiLineComment
  /\ Len(objects) >= 2
  /\ objects[Len(objects)].lineNumber = lineNumber
  /\ objects[Len(objects) - 1].lineNumber = lineNumber - 1
  /\ objects[Len(objects) - 1].type = "table"

\* the text of a token as it stands in the source line
TokenText(tok) ==
  CASE tok.t = "q-name" -> tok.name
    [] tok.t = "word" -> "word"
    [] OTHER -> tok.t

RECURSIVE JoinText(_)
JoinText(s) == IF s = <<>> THEN "" ELSE TokenText(Head(s)) \o JoinText(Tail(s))

\* the line has the form <kind> <id> <name> with one of the 13 kinds in any
\* letter case; the name it states
IsHeaderLine(l) ==
  /\ Len(l) > 0
  /\ \/ l[1].t = "object"
     \/ (l[1].t = "object-q" /\ \E j \in 2..Len(l) : l[j].t = "q-name")
  /\ toLowerCase(l[1].kind) \in AL_OBJECT_TYPES_WITH_ID
StatedName(l) ==
  IF l[1].t = "object" THEN l[1].name
  ELSE l[1].name \o JoinText(SubSeq(l, 2, IndexOf(l, "q-name")))

\* C18: every line outside of any comment that has the form
\* <kind> <integer-id> <name>, the kind being one of the 13 kinds in any
\* letter case and the name a quoted string without a double quote or a bare
\* identifier, is recorded as one declaration with the kind in lower case,
\* that id and exactly that name.
C18_HeaderLinesAreRecorded ==
  [][ (/\ pc = "loop" /\ lineNumber' = lineNumber + 1
       /\ ~lexInBlock
       /\ IsHeaderLine(line')) =>
        /\ Len(objects') = Len(objects) + 1
        /\ objects'[Len(objects')].type = toLowerCase(line'[1].kind)
        /\ objects'[Len(objects')].id = line'[1].id
        /\ objects'[Len(objects')].name = StatedName(line')
        /\ objects'[Len(objects')].lineNumber = lineNumber' ]_vars

\* the case C18 is about: header lines in upper and mixed case have been
\* recorded in lower case with their names
C18_Witness ==
  /\ pc = "loop"
  /\ \E j \in 1..Len(objects) :
       objects[j].type = "table" /\ objects[j].name = "My Table - (Test) [v2]"
  /\ \E j \in 1..Len(objects) : objects[j].type = "enum" /\ objects[j].id = 2

ExtensionKinds ==
  {"tableextension", "pageextension", "reportextension", "enumextension",
   "permissionsetextension"}

\* C19: a declaration of a non-extension kind never carries the name of an
\* extended object, whatever else its header line contains.
C19_ExtendsOnlyOnExtensionKinds ==
  \A j \in 1..Len(objects) :
    objects[j].type \notin ExtensionKinds => objects[j].extendsObject = NoString

\* the case C19 is about: a non-extension declaration and an extension
\* declaration with its base name have both been recorded
C19_Witness ==
  /\ \E j \in 1..Len(objects) : objects[j].type = "table"
  /\ \E j \in 1..Len(objects) :
       objects[j].type = "tableextension" /\ objects[j].extendsObject = "Cust"

\* C20: in every declaration the list of fields is present only for table and
\* tableextension, the list of values only for enum and enumextension, never
\* both, and for every other kind both are absent rather than empty.
C20_ListsPresentByKind ==
  \A j \in 1..Len(objects) :
    /\ objects[j].fields.defined <=> objects[j].type \in {"table", "tableextension"}
    /\ objects[j].enumValues.defined <=> objects[j].type \in {"enum", "enumextension"}
    /\ ~(objects[j].fields.defined /\ objects[j].enumValues.defined)

\* the case C20 is about: a table with a recorded field, an enumextension with
\* a recorded value and a page with neither list, in one unit
C20_Witness ==
  /\ pc = "done"
  /\ \E j \in 1..Len(objects) :
       /\ objects[j].type \in {"table", "tableextension"}
       /\ objects[j].fields.defined /\ objects[j].fields.items # <<>>
       /\ ~objects[j].enumValues.defined
  /\ \E j \in 1..Len(objects) :
       /\ objects[j].type \in {"page", "pageextension", "codeunit"}
       /\ ~objects[j].fields.defined /\ ~objects[j].enumValues.defined

\* `list!.push(x)` raises a TypeError when the list is absent; in the model
\* such a push leaves an absent list with an item in it
PushedOnAbsentList(o) ==
  \/ (~o.fields.defined /\ o.fields.items # <<>>)
  \/ (~o.enumValues.defined /\ o.enumValues.items # <<>>)

MatchesNoPattern(cl) ==
  ~OBJECT_PATTERN(cl) /\ ~FIELD_PATTERN(cl) /\ ~ENUM_VALUE_PATTERN(cl)

\* C21: the scanner never raises: for every text (empty, unbalanced braces,
\* an unterminated comment, field or value lines with no open declaration, a
\* `fields` never followed by a brace) it can return its list of
\* declarations after every line, no push ever meets an absent list, and a
\* line that matches no pattern adds nothing to the list.
C21_NeverRaises ==
  /\ [](/\ \A j \in 1..Len(objects) : ~PushedOnAbsentList(objects[j])
        /\ (pc = "loop" => ENABLED ReturnObjects))
  /\ [][ (pc = "loop" /\ lineNumber' = lineNumber + 1
          /\ MatchesNoPattern(CleanedLine(inMultiLineComment, line')))
         => objects' = objects ]_vars

\* the cases C21 is about: a text of MaxLines lines whose first two lines
\* meet no open declaration, with one header, a `fields` that no brace
\* follows and a comment that is never closed, has been returned
C21_Witness ==
  /\ pc = "done"
  /\ lineNumber = MaxLines
  /\ Len(objects) = 1 /\ objects[1].lineNumber = 3
  /\ objects[1].fields.items = <<>>
  /\ expectingFieldsBlockBrace
  /\ inMultiLineComment

\* a required string property that is missing or empty
BadString(f) == ~f.defined \/ f.items[1] = ""

\* C22: manifest normalization never throws: for every text it returns the
\* invalid signal or a project record whose ranges are a list: the list of
\* ranges as given, a single range as a one-element list, no range at all
\* as the empty list; a text that is no JSON or lacks a required non-empty
\* string gives the invalid signal.
C22_ManifestNormalizes ==
  op.name = "parseAppJson" =>
    LET json == appJsons[1]
    IN /\ Len(result) <= 1
       /\ (\/ json.kind # "object"
           \/ BadString(json.id) \/ BadString(json.name)
           \/ BadString(json.publisher) \/ BadString(json.version))
            => result = <<>>
       /\ result # <<>> =>
            /\ result[1].name = json.name.items[1]
            /\ result[1].idRanges \in Seq([from : Nat, to : Nat])
            /\ json.idRanges.defined => result[1].idRanges = json.idRanges.items[1]
            /\ (~json.idRanges.defined /\ json.idRange.defined)
                 => result[1].idRanges = <<json.idRange.items[1]>>
            /\ (~json.idRanges.defined /\ ~json.idRange.defined)
                 => result[1].idRanges = <<>>

\* the case C22 is about: a manifest with a single range and no list of
\* ranges has been normalized to a record
C22_Witness ==
  /\ op.name = "parseAppJson"
  /\ result # <<>>
  /\ ~appJsons[1].idRanges.defined /\ appJsons[1].idRange.defined

(***************************************************************************)
(* Claims about the Range Calculator and the Range Merger                  *)
(***************************************************************************)
Inside(g, r) == r.from <= g.start /\ g.end <= r.to
ContainingRanges(g, rs) == {j \in 1..Len(rs) : Inside(g, rs[j])}
Covered(rs) == UNION {rs[j].from .. rs[j].to : j \in 1..Len(rs)}
GapIsFree(g, used) == (g.start .. g.end) \cap used = {}
GapCountRight(g) == g.count = g.end - g.start + 1

\* C6 as stated: every gap, per project or shared, lies inside exactly one
\* configured / merged range, holds no used id and has count = end - start + 1.
C6_GapInExactlyOneRange ==
  /\ op.name = "calculateGaps" =>
       \A i \in 1..Len(result) :
         /\ Cardinality(ContainingRanges(result[i], projects[op.project].idRanges)) = 1
         /\ GapIsFree(result[i], UsedIds(projects[op.project]))
         /\ GapCountRight(result[i])
  /\ op.name = "calculateSharedGaps" =>
       \A i \in 1..Len(result) :
         /\ Cardinality(ContainingRanges(result[i], getSharedRanges(projects))) = 1
         /\ GapIsFree(result[i], UsedIdsOfType(projects, op.objectType))
         /\ GapCountRight(result[i])

\* C6 amended: every gap lies inside a range of its list (in shared mode
\* inside exactly one merged range; per project inside at least one
\* configured range, more than one when configured ranges overlap), holds
\* no used id and has count = end - start + 1.
C6_GapInsideARange ==
  /\ op.name = "calculateGaps" =>
       \A i \in 1..Len(result) :
         /\ ContainingRanges(result[i], projects[op.project].idRanges) # {}
         /\ GapIsFree(result[i], UsedIds(projects[op.project]))
         /\ GapCountRight(result[i])
  /\ op.name = "calculateSharedGaps" =>
       \A i \in 1..Len(result) :
         /\ Cardinality(ContainingRanges(result[i], getSharedRanges(projects))) = 1
         /\ GapIsFree(result[i], UsedIdsOfType(projects, op.objectType))
         /\ GapCountRight(result[i])

\* C6 witness: a per-project gap closed by a used id lies inside two
\* overlapping configured ranges
C6_Witness ==
  /\ op.name = "calculateGaps"
  /\ UsedIds(projects[op.project]) \cap Covered(projects[op.project].idRanges) # {}
  /\ \E i \in 1..Len(result) :
       /\ Cardinality(ContainingRanges(result[i], projects[op.project].idRanges)) = 2
       /\ result[i].end + 1 \in UsedIds(projects[op.project])

IsMaximalRun(a, b, r, used) ==
  /\ r.from <= a /\ a <= b /\ b <= r.to
  /\ \A n \in a..b : n \notin used
  /\ (a = r.from \/ a - 1 \in used)
  /\ (b = r.to \/ b + 1 \in used)

MaximalRuns(r, used) ==
  {ab \in (r.from .. r.to) \X (r.from .. r.to) : IsMaximalRun(ab[1], ab[2], r, used)}

RECURSIVE RunsInOrder(_)
RunsInOrder(S) ==
  IF S = {} THEN <<>>
  ELSE LET m == CHOOSE x \in S : \A y \in S : x[1] <= y[1]
       IN <<m>> \o RunsInOrder(S \ {m})

RECURSIVE RunsOfRanges(_, _, _)
RunsOfRanges(rs, i, used) ==
  IF i > Len(rs) THEN <<>>
  ELSE RunsInOrder(MaximalRuns(rs[i], used)) \o RunsOfRanges(rs, i + 1, used)

\* C7: the gaps of a project are, range after range in the order the ranges
\* are configured, exactly the maximal runs of unused ids of that range in
\* ascending order.
C7_GapsAreMaximalRuns ==
  op.name = "calculateGaps" =>
    [i \in 1..Len(result) |-> <<result[i].start, result[i].end>>]
      = RunsOfRanges(projects[op.project].idRanges, 1, UsedIds(projects[op.project]))

\* C7 witness: one range with a used id in its middle gives two gaps
C7_Witness ==
  /\ op.name = "calculateGaps"
  /\ Len(projects[op.project].idRanges) = 1
  /\ Len(result) = 2
  /\ result[1].end + 2 = result[2].start
  /\ result[2].end = projects[op.project].idRanges[1].to

SortedByFrom(rs) == \A j, k \in 1..Len(rs) : j < k => rs[j].from < rs[k].from
PairwiseDisjoint(rs) ==
  \A j, k \in 1..Len(rs) :
    j # k => (rs[j].from .. rs[j].to) \cap (rs[k].from .. rs[k].to) = {}

\* C8: the merged ranges are sorted ascending by from, pairwise disjoint,
\* and cover exactly the ids that the ranges of all projects cover.
C8_MergeKeepsCoverage ==
  op.name = "getSharedRanges" =>
    /\ SortedByFrom(result)
    /\ PairwiseDisjoint(result)
    /\ Covered(result) = Covered(AllRanges(projects))

\* C8 witness: three ranges of three projects, not in ascending order, two
\* of them overlapping, merged into two ranges
C8_Witness ==
  /\ op.name = "getSharedRanges"
  /\ Len(projects) = 3
  /\ Len(AllRanges(projects)) = 3
  /\ AllRanges(projects)[1].from > AllRanges(projects)[3].from
  /\ \E j, k \in 1..3 :
       /\ j # k
       /\ AllRanges(projects)[j].from < AllRanges(projects)[k].from
       /\ AllRanges(projects)[k].from <= AllRanges(projects)[j].to
  /\ Len(result) = 2

\* C9: two consecutive merged ranges are neither overlapping nor adjacent:
\* the later one starts after the id that follows the end of the earlier.
C9_MergedRangesNotAdjacent ==
  op.name = "getSharedRanges" =>
    \A j \in 1..(Len(result) - 1) : result[j + 1].from > result[j].to + 1

\* C9 witness: two adjacent input ranges were merged and a third range,
\* separated from them, was kept apart
C9_Witness ==
  /\ op.name = "getSharedRanges"
  /\ Len(result) = 2
  /\ \E j, k \in 1..Len(AllRanges(projects)) :
       AllRanges(projects)[j].to + 1 = AllRanges(projects)[k].from

(***************************************************************************)
(* Claims about conflict detection                                         *)
(***************************************************************************)
\* the projects (positions in the scanned list) that own a declaration of (kind, id)
ProjectsDeclaring(kind, n) ==
  {p \in 1..Len(projects) :
     \E j \in 1..Len(projects[p].objects) :
       projects[p].objects[j].type = kind /\ projects[p].objects[j].id = n}

\* the declarations of (kind, id), one per owning project and position
DeclarationsOf(kind, n) ==
  {<<p, j>> \in (1..Len(projects)) \X (1..(2 * Len(AlFiles))) :
     /\ j <= Len(projects[p].objects)
     /\ projects[p].objects[j].type = kind
     /\ projects[p].objects[j].id = n}

Occurrences(seq, r) == Cardinality({j \in 1..Len(seq) : seq[j] = r})

\* c lists exactly the declarations carrying (kind, id)
ListsTheDeclarations(c, kind, n) ==
  /\ Len(c.objects) = Cardinality(DeclarationsOf(kind, n))
  /\ \A d \in DeclarationsOf(kind, n) :
       Occurrences(c.objects, projects[d[1]].objects[d[2]])
         = Cardinality({e \in DeclarationsOf(kind, n) :
                          projects[e[1]].objects[e[2]] = projects[d[1]].objects[d[2]]})

DeclaredKinds ==
  {projects[p].objects[j].type :
     <<p, j>> \in {d \in (1..Len(projects)) \X (1..(2 * Len(AlFiles))) :
                     d[2] <= Len(projects[d[1]].objects)}}
DeclaredIds ==
  {projects[p].objects[j].id :
     <<p, j>> \in {d \in (1..Len(projects)) \X (1..(2 * Len(AlFiles))) :
                     d[2] <= Len(projects[d[1]].objects)}}

\* C1: the whole-object detector reports a (kind, id) group only if its
\* declarations originate from two or more distinct projects; duplicates
\* inside one project, also in two different files of it, are never reported.
C1_ConflictsSpanProjects ==
  op.name = "detectConflicts" =>
    \A k \in 1..Len(result) :
      Cardinality(ProjectsDeclaring(result[k].type, result[k].id)) >= 2

\* the case C1 is about: one project declares the same (kind, id) in two files
C1_SameProjectDuplicate ==
  /\ op.name = "detectConflicts"
  /\ \E kind \in DeclaredKinds, n \in DeclaredIds :
       /\ Cardinality(ProjectsDeclaring(kind, n)) = 1
       /\ Cardinality(DeclarationsOf(kind, n)) >= 2

\* C10: every (kind, id) pair declared by two or more distinct projects yields
\* exactly one Conflict, whose declaration list is exactly the declarations
\* carrying that (kind, id); the same id under two different kinds is no
\* conflict.
C10_OneConflictPerSharedPair ==
  op.name = "detectConflicts" =>
    /\ \A kind \in DeclaredKinds, n \in DeclaredIds :
         Cardinality(ProjectsDeclaring(kind, n)) >= 2 =>
           /\ Cardinality({k \in 1..Len(result) :
                             result[k].type = kind /\ result[k].id = n}) = 1
           /\ \A k \in 1..Len(result) :
                (result[k].type = kind /\ result[k].id = n)
                  => ListsTheDeclarations(result[k], kind, n)
    /\ \A k \in 1..Len(result) : \A j \in 1..Len(result[k].objects) :
         /\ result[k].objects[j].type = result[k].type
         /\ result[k].objects[j].id = result[k].id

\* the case C10 is about: some (kind, id) is declared by two projects
C10_SharedPair ==
  /\ op.name = "detectConflicts"
  /\ \E kind \in DeclaredKinds, n \in DeclaredIds :
       Cardinality(ProjectsDeclaring(kind, n)) >= 2

\* the table extensions with an extends clause and fields, per project position
ExtensionsOf(p) ==
  {j \in 1..Len(projects[p].objects) : HasExtensionFields(projects[p].objects[j])}

\* the projects with a table extension of base that has a field with the id
ProjectsExtending(base, n) ==
  {p \in 1..Len(projects) :
     \E j \in ExtensionsOf(p) :
       /\ projects[p].objects[j].extendsObject = base
       /\ \E f \in 1..Len(projects[p].objects[j].fields.items) :
            projects[p].objects[j].fields.items[f].id = n}

ExtendedNames ==
  UNION {{projects[p].objects[j].extendsObject : j \in ExtensionsOf(p)} :
           p \in 1..Len(projects)}
ExtensionFieldIds ==
  UNION {UNION {{projects[p].objects[j].fields.items[f].id :
                   f \in 1..Len(projects[p].objects[j].fields.items)} :
                  j \in ExtensionsOf(p)} :
           p \in 1..Len(projects)}
ReportedNames == {result[k].baseTable : k \in 1..Len(result)}
ReportedFieldIds == {result[k].fieldId : k \in 1..Len(result)}

\* C2: the field detector reports a ChildConflict for (extendsName, field id)
\* if and only if table extensions with that extendsName and non-empty
\* fields, from two or more distinct projects, contain a field with that id;
\* one project alone, or the same id over different bases, gives none.
C2_FieldConflictIffSharedAcrossProjects ==
  op.name = "detectFieldConflicts" =>
    \A base \in ExtendedNames \cup ReportedNames :
      \A n \in ExtensionFieldIds \cup ReportedFieldIds :
        (\E k \in 1..Len(result) : result[k].baseTable = base /\ result[k].fieldId = n)
          <=> Cardinality(ProjectsExtending(base, n)) >= 2

\* the case C2 is about: two projects extend one base with the same field id
C2_SharedField ==
  /\ op.name = "detectFieldConflicts"
  /\ \E base \in ExtendedNames, n \in ExtensionFieldIds :
       Cardinality(ProjectsExtending(base, n)) >= 2

\* C11: the rule "reported only when contributed by two or more distinct
\* projects" is applied alike by the three detectors: when the same files
\* declare a table, a table extension field and an enum extension value, the
\* whole-object, the field and the enum value detector agree on whether the
\* group is a conflict.
C11_DetectorsAgree ==
  op.name = "setProjects:shared" =>
    /\ (Len(result.conflicts) > 0) <=> (Len(result.fieldConflicts) > 0)
    /\ (Len(result.fieldConflicts) > 0) <=> (Len(result.enumValueConflicts) > 0)

\* the part of C11 that the field and the enum value detector satisfy
C11_ChildDetectorsAgree ==
  op.name = "setProjects:shared" =>
    ((Len(result.fieldConflicts) > 0) <=> (Len(result.enumValueConflicts) > 0))

\* the case C11 is about: the detectors ran on declarations in two files
C11_Witness ==
  /\ op.name = "setProjects:shared"
  /\ Cardinality({i \in 1..Len(files) : files[i] = TripleText}) >= 2
  /\ Len(projects) >= 1

\* the identifiers of the i-th configured range of project p that no
\* declaration of the project uses
FreeIds(p, i) ==
  (projects[p].idRanges[i].from .. projects[p].idRanges[i].to) \ UsedIds(projects[p])
RangesWithFreeIds(p) == {i \in 1..Len(projects[p].idRanges) : FreeIds(p, i) # {}}
Least(S) == CHOOSE x \in S : \A y \in S : x <= y

\* C12: the next available id of a project is the start of the first gap
\* over its ranges in input order, that is the least unused id of the first
\* range that has one; it is absent exactly when no range has an unused id
\* (no ranges, or all used); a first range without used ids gives its from.
C12_NextAvailableIsFirstGapStart ==
  op.name = "getNextAvailableId" =>
    /\ (result = Null) <=> (RangesWithFreeIds(op.project) = {})
    /\ RangesWithFreeIds(op.project) # {} =>
         result = Least(FreeIds(op.project, Least(RangesWithFreeIds(op.project))))
    /\ (/\ Len(projects[op.project].idRanges) > 0
        /\ FreeIds(op.project, 1) =
             projects[op.project].idRanges[1].from .. projects[op.project].idRanges[1].to)
         => result = projects[op.project].idRanges[1].from

\* C12 witness: the first range is used up and the id comes from the second
\* range, which lies below the first
C12_Witness ==
  /\ op.name = "getNextAvailableId"
  /\ Len(projects[op.project].idRanges) = 2
  /\ FreeIds(op.project, 1) = {}
  /\ result = projects[op.project].idRanges[2].from
  /\ result < projects[op.project].idRanges[1].from

(***************************************************************************)
(* Claims about the scanned projects as snapshots                          *)
(***************************************************************************)
\* C23: after a scan has produced the declarations, no gap, merge or
\* conflict computation and no consumer of their results changes a
\* declaration, the content or order of its fields and values, or the
\* ranges of a project.
C23_ScannedProjectsNeverChange ==
  [][apc = "scanned" => projects' = projects]_vars

\* the case C23 is about: an object node of a scanned project with several
\* fields has been expanded
C23_Witness ==
  /\ op.name = "getChildren"
  /\ Len(result) >= 2
  /\ result[1].type = "field"

(***************************************************************************)
(* Claims about the file watcher                                           *)
(***************************************************************************)
\* the file event that the call of the callback at history[i] answers: the
\* last file event before it (0 = none)
LastEventBefore(i) ==
  IF \E e \in 1..(i - 1) : history[e].kind = "event"
  THEN CHOOSE e \in 1..(i - 1) :
         /\ history[e].kind = "event"
         /\ \A f \in (e + 1)..(i - 1) : history[f].kind # "event"
  ELSE 0

\* C24: while the setting autoRefresh is false no file event, on an .al file
\* or on app.json, leads to a call of the refresh callback; only a manual
\* refresh does; this holds after any sequence of switching the setting.
C24_NoAutomaticRefreshWhileOff ==
  \A i \in 1..Len(history) :
    history[i].kind = "timer" =>
      /\ LastEventBefore(i) # 0
      /\ history[LastEventBefore(i)].autoRefresh

\* the case C24 is about: the setting is off, a file event happened while it
\* was off, and the delay has passed without a call
C24_Witness ==
  /\ ~autoRefresh
  /\ Len(history) = 1
  /\ history[1].kind = "event" /\ ~history[1].autoRefresh
  /\ now > history[1].at + autoRefreshDelay

\* C26: in a burst of file events, each less than autoRefreshDelay after the
\* one before, the callback is not called during the burst and is called
\* once, autoRefreshDelay after the last event; a forceRefresh cancels the
\* pending call, so the events before it cause no later call.
C26_Debounce ==
  /\ \A i \in 1..Len(history) :
       history[i].kind = "timer" =>
         /\ i > 1 /\ history[i - 1].kind = "event"
         /\ history[i].at = history[i - 1].at + autoRefreshDelay
  /\ \A e1 \in 1..Len(history) : \A e2 \in (e1 + 1)..Len(history) :
       (/\ history[e1].kind = "event" /\ history[e2].kind = "event"
        /\ history[e2].at < history[e1].at + autoRefreshDelay)
         => \A j \in (e1 + 1)..(e2 - 1) : history[j].kind # "timer"
  /\ LET last == IF history = <<>> THEN [kind |-> "", file |-> ""]
                 ELSE history[Len(history)]
         watched == \/ (last.file = "al" /\ watcher)
                    \/ (last.file = "app.json" /\ appJsonWatcher)
     IN /\ (last.kind = "event" /\ watched)
             => /\ debounceTimer.pending
                /\ debounceTimer.due = last.at + autoRefreshDelay
                /\ now <= debounceTimer.due
        /\ last.kind \in {"timer", "manual"} => ~debounceTimer.pending

\* the case C26 is about: a burst of two events at different times has been
\* answered by one call, autoRefreshDelay after the second event
C26_Witness ==
  /\ Len(history) = 3
  /\ history[1].kind = "event" /\ history[2].kind = "event"
  /\ history[1].at < history[2].at
  /\ history[2].at < history[1].at + autoRefreshDelay
  /\ history[3].kind = "timer"
  /\ now > history[3].at

(***************************************************************************)
(* Claims about the suggested next id                                      *)
(***************************************************************************)
\* the projects whose folder the document lies in, and the deepest of them
Containing(documentPath) ==
  {k \in 1..Len(projects) : startsWith(documentPath, projects[k].rootPath \o <<"/">>)}
Deepest(documentPath) ==
  CHOOSE k \in Containing(documentPath) :
    \A l \in Containing(documentPath) :
      Len(projects[l].rootPath) <= Len(projects[k].rootPath)

\* C25: in normal mode, for a document inside nested projects, the suggested
\* next id is that of the deepest project containing the document, on every
\* code path that computes the suggestion for a document path.
C25_DeepestProjectSuggests ==
  (/\ op.name \in {"provideCompletionItems", "getNextAvailableId(documentPath)"}
   /\ Cardinality(Containing(files[1])) > 1)
    => /\ op.project = Deepest(files[1])
       /\ result = getNextAvailableId(projects[Deepest(files[1])])

\* the case C25 is about: the completion for a document inside two nested
\* projects came from the inner project, which is listed after the outer one
C25_Witness ==
  /\ op.name = "provideCompletionItems"
  /\ Cardinality(Containing(files[1])) = 2
  /\ op.project = Deepest(files[1])
  /\ op.project = Len(projects)
  /\ result # Null


\* C27: when refreshes overlap, then once all of them have completed both tree
\* providers show the result of the refresh that started last, and both show
\* the result of the same scan
C27_LastStartedRefreshWins ==
  (/\ \E i \in 1..Len(refreshes) : refreshes[i].overlaps
   /\ \A i \in 1..Len(refreshes) : refreshes[i].state = "done")
  => /\ usedIdsProvider = unusedIdsProvider
     /\ refreshes[usedIdsProvider].result = refreshes[Len(refreshes)].result

\* two refreshes were in flight together, both have completed, and the providers
\* show the scan of the one that started last
C27_Witness ==
  /\ Len(refreshes) = 2
  /\ refreshes[2].overlaps
  /\ \A i \in 1..2 : refreshes[i].state = "done"
  /\ refreshes[1].result # refreshes[2].result
  /\ usedIdsProvider = 2
  /\ unusedIdsProvider = 2


\* the declarations listed in a reported conflict, each named by its file and line
ListedDeclarations(entries) ==
  {<<entries[k].filePath, entries[k].lineNumber>> : k \in 1..Len(entries)}

\* C28: every reported conflict (whole-object, field or value) lists at least
\* two different declarations; one object or extension declared once in one
\* file is never reported as conflicting with itself, also when a project is
\* nested inside another project's folder and the file is scanned for both
C28_ConflictsListTwoDeclarations ==
  op.name = "setProjects:shared" =>
    /\ \A k \in 1..Len(result.conflicts) :
         Cardinality(ListedDeclarations(result.conflicts[k].objects)) >= 2
    /\ \A k \in 1..Len(result.fieldConflicts) :
         Cardinality(ListedDeclarations(result.fieldConflicts[k].fields)) >= 2
    /\ \A k \in 1..Len(result.enumValueConflicts) :
         Cardinality(ListedDeclarations(result.enumValueConflicts[k].values)) >= 2

\* the case C28 names: the detectors ran on a workspace where a project is
\* nested in another one's folder and a file of the inner project declares an
\* object and two extensions
C28_Witness ==
  /\ op.name = "setProjects:shared"
  /\ \E p \in 1..Len(projects), q \in 1..Len(projects) :
       /\ p # q
       /\ projects[p].name # projects[q].name
       /\ IsUnder(projects[q].rootPath, projects[p].rootPath)
       /\ \E i \in 1..Len(AlFiles) :
            IsUnder(AlFiles[i], projects[q].rootPath) /\ files[i] = TripleText


\* the extendsName of the table extensions that declare the listed field
OwnerExtendsNames(entry) ==
  UNION {{projects[p].objects[j].extendsObject :
            j \in {x \in ExtensionsOf(p) :
                     /\ projects[p].objects[x].filePath = entry.filePath
                     /\ projects[p].objects[x].id = entry.extensionId
                     /\ \E f \in 1..Len(projects[p].objects[x].fields.items) :
                          projects[p].objects[x].fields.items[f].lineNumber
                            = entry.lineNumber}} :
           p \in 1..Len(projects)}

\* C29: the baseObjectName and childId of every reported ChildConflict equal
\* the extendsName of the owning extension and the child id of every entry
\* listed in it, for every base object name the scanner can produce; two
\* groups with different (extendsName, child id) are never reported under the
\* same baseObjectName and childId
C29_ChildConflictNamesItsGroup ==
  op.name = "detectFieldConflicts" =>
    /\ \A k \in 1..Len(result) : \A e \in 1..Len(result[k].fields) :
         /\ result[k].fields[e].id = result[k].fieldId
         /\ OwnerExtendsNames(result[k].fields[e]) = {result[k].baseTable}
    /\ \A k \in 1..Len(result), m \in 1..Len(result) :
         (result[k].baseTable = result[m].baseTable
            /\ result[k].fieldId = result[m].fieldId) => k = m

\* the field detector reported a conflict on a base name without a colon that
\* carries the group's own name and field id
C29_Witness ==
  /\ op.name = "detectFieldConflicts"
  /\ \E k \in 1..Len(result) :
       /\ result[k].baseTable = "Vend"
       /\ \A e \in 1..Len(result[k].fields) :
            /\ result[k].fields[e].id = result[k].fieldId
            /\ OwnerExtendsNames(result[k].fields[e]) = {"Vend"}


\* the identifiers of the union of all projects' configured ranges
UnionOfRanges ==
  UNION {UNION {projects[p].idRanges[i].from .. projects[p].idRanges[i].to :
                  i \in 1..Len(projects[p].idRanges)} :
           p \in 1..Len(projects)}
\* the identifiers some project uses for a declaration of the kind
IdsOfKind(kind) ==
  UNION {{projects[p].objects[j].id :
            j \in {x \in 1..Len(projects[p].objects) :
                     projects[p].objects[x].type = kind}} :
           p \in 1..Len(projects)}

\* C30: in shared range mode the next id offered for kind K is the smallest
\* identifier of the union of all projects' ranges that no project uses for a
\* declaration of kind K; identifiers used only by other kinds stay available
\* for K; absent is returned only when every identifier of the union is used
\* by kind K or no range is configured
C30_SharedNextIdIsLeastFreeOfKind ==
  op.name = "getNextAvailableIdForType" =>
    LET free == UnionOfRanges \ IdsOfKind(op.objectType)
    IN IF free = {} THEN result = Null
       ELSE result # Null /\ result \in free /\ \A n \in free : result <= n

\* the id offered for one kind is in use by a declaration of another kind, and
\* the ranges of two projects make up the union
C30_Witness ==
  /\ op.name = "getNextAvailableIdForType"
  /\ result # Null
  /\ \E kind \in SharedTypes : kind # op.objectType /\ result \in IdsOfKind(kind)
  /\ Cardinality({p \in 1..Len(projects) : Len(projects[p].idRanges) > 0}) >= 2

==========================================================================
